---- MODULE Spec2Model ----
(***************************************************************************)
(* Centralised deconfliction system for drones: the 4D trajectory          *)
(* generator, the conflict detector, the future_trajectory store and the   *)
(* mission submission workers (deconfliction_engine.py, database.py,       *)
(* app.py).                                                                *)
(*                                                                         *)
(* Units.  A datetime is an integer number of microseconds since the       *)
(* model's epoch (a whole second), which is the resolution of Python's     *)
(* datetime/timedelta.  A coordinate is an integer number of millimetres;  *)
(* float64 arithmetic is modelled by exact rational arithmetic rounded to  *)
(* the unit.  A distance is kept as its square (mm^2), so that comparing   *)
(* it with the safety buffer needs no square root.                         *)
(***************************************************************************)
EXTENDS Integers, Sequences, FiniteSets, TLC

(***************************************************************************)
(* Program constants                                                       *)
(***************************************************************************)
\* microseconds in a second: timedelta(seconds=...) keeps microseconds
USEC == 1000000
\* millimetres in a metre (the unit of coordinates)
MM == 1000
\* DeconflictionEngine(safety_buffer=2.0) as built by init_system, in mm
safety_buffer == 2000
\* DeconflictionEngine.time_resolution = 0.1 s, in microseconds
time_resolution == 100000
\* DeconflictionEngine.TIME_TOLERANCE = 0.5 s, in microseconds
TIME_TOLERANCE == 500000
\* the value Python's None / SQL NULL
NULL == -1

(***************************************************************************)
(* Arithmetic helpers                                                      *)
(***************************************************************************)
Abs(x) == IF x < 0 THEN -x ELSE x

Max(a, b) == IF a >= b THEN a ELSE b

Min(a, b) == IF a <= b THEN a ELSE b

RECURSIVE GCD(_, _)
GCD(a, b) == IF b = 0 THEN a ELSE GCD(b, a % b)

\* round(n / d) to the nearest integer, ties to even, for n >= 0, d > 0:
\* the rounding of timedelta(seconds=<float>) to whole microseconds
RoundDiv(n, d) ==
    LET q == n \div d
        r == n % d
    IN  IF 2 * r < d THEN q
        ELSE IF 2 * r > d THEN q + 1
        ELSE IF q % 2 = 0 THEN q ELSE q + 1

\* round(n / d) for any sign of n (coordinates), d > 0
RoundDivS(n, d) == IF n >= 0 THEN RoundDiv(n, d) ELSE -RoundDiv(-n, d)

RECURSIVE ISqrtIn(_, _, _)
ISqrtIn(n, lo, hi) ==
    IF lo >= hi THEN lo
    ELSE LET mid == (lo + hi + 1) \div 2
         IN  IF mid * mid <= n THEN ISqrtIn(n, mid, hi) ELSE ISqrtIn(n, lo, mid - 1)

\* floor of the square root
ISqrt(n) == ISqrtIn(n, 0, 40000)

\* squared Euclidean distance of two positions <<x, y, z>>
DistSq(p, q) ==
    (p[1] - q[1]) * (p[1] - q[1]) + (p[2] - q[2]) * (p[2] - q[2])
        + (p[3] - q[3]) * (p[3] - q[3])

\* np.linalg.norm(p2 - p1)
Norm(p, q) == ISqrt(DistSq(p, q))

RECURSIVE SumSeq(_)
SumSeq(s) == IF s = <<>> THEN 0 ELSE Head(s) + SumSeq(Tail(s))

\* point.get(key, default)
Get(point, key, default) == IF key \in DOMAIN point THEN point[key] ELSE default

(***************************************************************************)
(* DeconflictionEngine.generate_4d_trajectory                              *)
(***************************************************************************)
\* the samples of one segment: step = 0 .. steps, with t = step / steps.
\* seg_time is the rational sn / sd microseconds.
SegmentPoints(drone_id, segment_idx, p1, p2, sn, sd, steps, current_time) ==
    [k \in 1..(steps + 1) |->
        LET step == k - 1
        IN  [drone_id |-> drone_id,
             timestamp |-> current_time + RoundDiv(sn * step, sd * steps),
             position |-> <<p1[1] + RoundDivS(step * (p2[1] - p1[1]), steps),
                            p1[2] + RoundDivS(step * (p2[2] - p1[2]), steps),
                            p1[3] + RoundDivS(step * (p2[3] - p1[3]), steps)>>,
             segment |-> segment_idx,
             waypoint_index |-> IF step = 0 THEN segment_idx ELSE NULL,
             is_waypoint |-> (step = steps)]]

RECURSIVE GenSegments(_, _, _, _, _, _, _)
GenSegments(drone_id, all_points, distances, total_distance, mission_duration, i, current_time) ==
    IF i > Len(distances) THEN <<>>
    ELSE LET g == GCD(distances[i], total_distance)
             \* seg_time = (distance / total_distance) * mission_duration
             sn == (distances[i] \div g) * mission_duration
             sd == total_distance \div g
             \* steps = max(1, int(seg_time / self.time_resolution))
             steps == Max(1, sn \div (sd * time_resolution))
         IN  SegmentPoints(drone_id, i - 1, all_points[i], all_points[i + 1],
                           sn, sd, steps, current_time)
             \o GenSegments(drone_id, all_points, distances, total_distance,
                            mission_duration, i + 1,
                            current_time + RoundDiv(sn, sd))

\* the failure generate_4d_trajectory signals beside returning []: nothing
\* for an empty waypoint list (line 70), logger.error("Invalid mission
\* duration ...") for a window that is not positive (lines 78-80)
generate_error(waypoints, start_time, end_time) ==
    IF waypoints = <<>> THEN "none"
    ELSE IF end_time - start_time <= 0 THEN "InvalidWindow"
    ELSE "none"

generate_4d_trajectory(drone_id, start_pos, waypoints, start_time, end_time) ==
    IF waypoints = <<>> THEN <<>>
    ELSE LET all_points == <<start_pos>> \o waypoints
             mission_duration == end_time - start_time
             distances == [i \in 1..(Len(all_points) - 1) |->
                              Norm(all_points[i], all_points[i + 1])]
             total_distance == SumSeq(distances)
         IN  IF mission_duration <= 0 THEN <<>>
             ELSE IF total_distance = 0
             THEN <<[drone_id |-> drone_id, timestamp |-> start_time,
                     position |-> start_pos, waypoint_index |-> 0]>>
             ELSE LET trajectory ==
                          GenSegments(drone_id, all_points, distances,
                                      total_distance, mission_duration, 1,
                                      start_time)
                  IN  \* "Add final waypoint explicitly"
                      IF ~trajectory[Len(trajectory)].is_waypoint
                      THEN Append(trajectory,
                                  [drone_id |-> drone_id, timestamp |-> end_time,
                                   position |-> all_points[Len(all_points)],
                                   segment |-> Len(distances) - 1,
                                   waypoint_index |-> Len(waypoints),
                                   is_waypoint |-> TRUE])
                      ELSE trajectory

(***************************************************************************)
(* database.py: the future_trajectory table.  A table is the sequence of   *)
(* its rows in rowid order.  The timestamp column holds the text           *)
(* 'YYYY-MM-DD HH:MM:SS'; the text is modelled by the number of whole      *)
(* seconds it denotes, and comparing two such texts by comparing the       *)
(* numbers.  The columns id and created_at are read by no query and are    *)
(* left out.                                                               *)
(***************************************************************************)
\* timestamp.strftime('%Y-%m-%d %H:%M:%S'): the fraction of the second is dropped
StrfTime(t) == t \div USEC

\* the datetime a stored text is converted back to
ParseTime(text) == text * USEC

\* one row of the INSERT in store_future_trajectory
StoredRow(point, mission_id) ==
    [drone_id |-> point.drone_id,
     timestamp |-> StrfTime(point.timestamp),
     position |-> point.position,
     segment |-> Get(point, "segment", 0),
     waypoint_index |-> Get(point, "waypoint_index", NULL),
     is_waypoint |-> IF Get(point, "is_waypoint", FALSE) THEN 1 ELSE 0,
     mission_id |-> mission_id]

\* a store_future_trajectory without its DELETE
KeepDroneRows(rows, drone_id) == rows

\* DELETE FROM future_trajectory WHERE drone_id = ?
DeleteDroneRows(rows, drone_id) ==
    SelectSeq(rows, LAMBDA r : r.drone_id # drone_id)

RECURSIVE InsertPoints(_, _, _, _)
InsertPoints(rows, trajectory, k, mission_id) ==
    IF k > Len(trajectory) THEN rows
    ELSE InsertPoints(Append(rows, StoredRow(trajectory[k], mission_id)),
                      trajectory, k + 1, mission_id)

\* the whole transaction of store_future_trajectory
store_future_trajectory(rows, drone_id, trajectory, mission_id) ==
    InsertPoints(DeleteDroneRows(rows, drone_id), trajectory, 1, mission_id)

\* stable insertion of row r into a sequence sorted by timestamp
RECURSIVE InsertSorted(_, _)
InsertSorted(sorted, r) ==
    IF sorted = <<>> THEN <<r>>
    ELSE IF sorted[Len(sorted)].timestamp <= r.timestamp THEN Append(sorted, r)
    ELSE Append(InsertSorted(SubSeq(sorted, 1, Len(sorted) - 1), r),
                sorted[Len(sorted)])

\* ORDER BY timestamp; rows of equal timestamp stay in rowid order
RECURSIVE OrderByTime(_)
OrderByTime(rows) ==
    IF rows = <<>> THEN <<>>
    ELSE InsertSorted(OrderByTime(SubSeq(rows, 1, Len(rows) - 1)), rows[Len(rows)])

\* the dictionary entry built from one selected row
QueryPoint(r) ==
    [drone_id |-> r.drone_id,
     timestamp |-> ParseTime(r.timestamp),
     position |-> r.position,
     segment |-> r.segment,
     waypoint_index |-> r.waypoint_index,
     is_waypoint |-> (r.is_waypoint = 1)]

\* WHERE timestamp BETWEEN ? AND ?, both bounds formatted by strftime
InWindow(r, start_time, end_time) ==
    /\ StrfTime(start_time) <= r.timestamp
    /\ r.timestamp <= StrfTime(end_time)

RowsOfDrone(rows, drone_id) ==
    SelectSeq(rows, LAMBDA r : r.drone_id = drone_id)

\* get_future_trajectories: {drone_id: [point, ...]} for the drones with a
\* row in the window
get_future_trajectories(rows, start_time, end_time) ==
    LET sel == SelectSeq(rows, LAMBDA r : InWindow(r, start_time, end_time))
        ids == {sel[i].drone_id : i \in 1..Len(sel)}
    IN  [d \in ids |->
            LET mine == OrderByTime(RowsOfDrone(sel, d))
            IN  [i \in 1..Len(mine) |-> QueryPoint(mine[i])]]

\* delete_future_trajectory(drone_id, mission_id); NULL is an argument not given
delete_future_trajectory(rows, drone_id, mission_id) ==
    IF drone_id # NULL /\ mission_id # NULL
    THEN SelectSeq(rows, LAMBDA r : ~(r.drone_id = drone_id /\ r.mission_id = mission_id))
    ELSE IF drone_id # NULL
    THEN SelectSeq(rows, LAMBDA r : r.drone_id # drone_id)
    ELSE IF mission_id # NULL
    THEN SelectSeq(rows, LAMBDA r : r.mission_id # mission_id)
    ELSE rows

\* the text comparison  timestamp < ?  of delete_old_future_trajectories: the
\* cutoff is bound as a datetime, whose text carries '.ffffff' when its
\* microseconds are not zero
TextBefore(text, cutoff_time) ==
    \/ text < cutoff_time \div USEC
    \/ text = cutoff_time \div USEC /\ cutoff_time % USEC # 0

\* DELETE FROM future_trajectory WHERE timestamp < ?
delete_old_future_trajectories(rows, cutoff_time) ==
    SelectSeq(rows, LAMBDA r : ~TextBefore(r.timestamp, cutoff_time))

(***************************************************************************)
(* DeconflictionEngine: time alignment and conflict check                  *)
(***************************************************************************)
\* an inner loop that takes a sample only when it is nearer than the tolerance
RECURSIVE ClosestBelow(_, _, _, _, _)
ClosestBelow(time1, traj2, k, closest, min_diff) ==
    IF k > Len(traj2) THEN closest
    ELSE LET time_diff == Abs(time1 - traj2[k].timestamp)
         IN  IF (closest = 0 \/ time_diff < min_diff) /\ time_diff < TIME_TOLERANCE
             THEN ClosestBelow(time1, traj2, k + 1, k, time_diff)
             ELSE ClosestBelow(time1, traj2, k + 1, closest, min_diff)

\* an inner loop that moves on to a later sample that is equally near
RECURSIVE ClosestLast(_, _, _, _, _)
ClosestLast(time1, traj2, k, closest, min_diff) ==
    IF k > Len(traj2) THEN closest
    ELSE LET time_diff == Abs(time1 - traj2[k].timestamp)
         IN  IF (closest = 0 \/ time_diff <= min_diff) /\ time_diff <= TIME_TOLERANCE
             THEN ClosestLast(time1, traj2, k + 1, k, time_diff)
             ELSE ClosestLast(time1, traj2, k + 1, closest, min_diff)

\* the inner loop of align_trajectories_by_time over traj2[k..]: the index of
\* closest_point (0 for None) given the best so far
RECURSIVE ClosestFrom(_, _, _, _, _)
ClosestFrom(time1, traj2, k, closest, min_diff) ==
    IF k > Len(traj2) THEN closest
    ELSE LET time_diff == Abs(time1 - traj2[k].timestamp)
         IN  IF (closest = 0 \/ time_diff < min_diff) /\ time_diff <= TIME_TOLERANCE
             THEN ClosestFrom(time1, traj2, k + 1, k, time_diff)
             ELSE ClosestFrom(time1, traj2, k + 1, closest, min_diff)

ClosestPoint(point1, traj2) == ClosestFrom(point1.timestamp, traj2, 1, 0, 0)

RECURSIVE AlignFrom(_, _, _)
AlignFrom(traj1, traj2, i) ==
    IF i > Len(traj1) THEN <<>>
    ELSE LET c == ClosestPoint(traj1[i], traj2)
         IN  (IF c # 0 THEN << <<traj1[i], traj2[c]>> >> ELSE <<>>)
             \o AlignFrom(traj1, traj2, i + 1)

align_trajectories_by_time(traj1, traj2) ==
    IF traj1 = <<>> \/ traj2 = <<>> THEN <<>> ELSE AlignFrom(traj1, traj2, 1)

\* the conflict built for one aligned pair
ConflictOf(new_drone_id, other_drone_id, pair) ==
    [time |-> Min(pair[1].timestamp, pair[2].timestamp),
     drone1_id |-> new_drone_id,
     drone2_id |-> other_drone_id,
     position |-> pair[1].position,
     distance |-> DistSq(pair[1].position, pair[2].position),
     timestamp1 |-> pair[1].timestamp,
     timestamp2 |-> pair[2].timestamp]

\* a comparison that counts the buffer itself as too close
WithinBuffer(p, q) == DistSq(p, q) <= safety_buffer * safety_buffer

\* distance < self.safety_buffer, on squared distances
TooClose(p, q) == DistSq(p, q) < safety_buffer * safety_buffer

\* a check that reports the first violating pair only
FirstConflictOnly(new_drone_id, other_drone_id, pairs, i) ==
    LET violating == {j \in i..Len(pairs) :
                         TooClose(pairs[j][1].position, pairs[j][2].position)}
    IN  IF violating = {} THEN <<>>
        ELSE <<ConflictOf(new_drone_id, other_drone_id,
                          pairs[CHOOSE j \in violating : \A m \in violating : j <= m])>>

RECURSIVE ConflictsOfPairs(_, _, _, _)
ConflictsOfPairs(new_drone_id, other_drone_id, pairs, i) ==
    IF i > Len(pairs) THEN <<>>
    ELSE (IF TooClose(pairs[i][1].position, pairs[i][2].position)
          THEN <<ConflictOf(new_drone_id, other_drone_id, pairs[i])>>
          ELSE <<>>)
         \o ConflictsOfPairs(new_drone_id, other_drone_id, pairs, i + 1)

\* the drone ids of a dictionary in ascending order (ORDER BY drone_id)
RECURSIVE SortedIds(_)
SortedIds(ids) ==
    IF ids = {} THEN <<>>
    ELSE LET m == CHOOSE x \in ids : \A y \in ids : x <= y
         IN  <<m>> \o SortedIds(ids \ {m})

RECURSIVE ConflictsOver(_, _, _, _)
ConflictsOver(new_trajectory, existing_trajectories, order, i) ==
    IF i > Len(order) THEN <<>>
    ELSE LET other == existing_trajectories[order[i]]
         IN  (IF other = <<>> THEN <<>>
              ELSE ConflictsOfPairs(new_trajectory[1].drone_id, order[i],
                                    align_trajectories_by_time(new_trajectory, other), 1))
             \o ConflictsOver(new_trajectory, existing_trajectories, order, i + 1)

check_trajectory_conflicts(new_trajectory, existing_trajectories) ==
    IF new_trajectory = <<>> THEN <<>>
    ELSE ConflictsOver(new_trajectory, existing_trajectories,
                       SortedIds(DOMAIN existing_trajectories), 1)

\* a check_mission_conflict that left the submitting drone's entry in
KeepEveryDrone(trajectories, drone_id) == trajectories

\* del existing_trajectories[new_drone_id]
WithoutDrone(trajectories, drone_id) ==
    [d \in (DOMAIN trajectories) \ {drone_id} |-> trajectories[d]]

(***************************************************************************)
(* DeconflictionEngine.generate_suggestions.  A suggestion is the record   *)
(* of its type, priority and proposed times; of the texts only the         *)
(* waypoint that the path deviation proposes is kept.                      *)
(***************************************************************************)
RECURSIVE MinOf(_)
MinOf(s) == IF Len(s) = 1 THEN s[1] ELSE Min(s[1], MinOf(Tail(s)))

RECURSIVE MaxOf(_)
MaxOf(s) == IF Len(s) = 1 THEN s[1] ELSE Max(s[1], MaxOf(Tail(s)))

\* a delay of the conflicts' duration alone, without the buffer
DelayOfSpan(conflict_times) == MaxOf(conflict_times) - MinOf(conflict_times)

\* delay_needed = conflict_duration + 5.0
DelayNeeded(conflict_times) ==
    (MaxOf(conflict_times) - MinOf(conflict_times)) + 5 * USEC

\* if len(waypoints) > 1
MultipleWaypoints(waypoints) == Len(waypoints) > 1

\* a speedup offered from ten seconds on
LongAtTen(mission_duration) == mission_duration >= 10 * USEC

\* if mission_duration > 10
LongMission(mission_duration) == mission_duration > 10 * USEC

\* [round(x, 1) for x in np.mean(conflict_positions, axis=0)]
AvgConflictPos(conflicts) ==
    LET n == Len(conflicts)
    IN  [k \in 1..3 |->
            100 * RoundDivS(SumSeq([i \in 1..n |-> conflicts[i].position[k]]),
                            100 * n)]

\* suggestions.sort(key=lambda x: x['priority']): a stable sort
RECURSIVE InsertByPriority(_, _)
InsertByPriority(sorted, x) ==
    IF sorted = <<>> THEN <<x>>
    ELSE IF sorted[Len(sorted)].priority <= x.priority THEN Append(sorted, x)
    ELSE Append(InsertByPriority(SubSeq(sorted, 1, Len(sorted) - 1), x),
                sorted[Len(sorted)])

RECURSIVE SortByPriority(_)
SortByPriority(suggestions) ==
    IF suggestions = <<>> THEN <<>>
    ELSE InsertByPriority(
             SortByPriority(SubSeq(suggestions, 1, Len(suggestions) - 1)),
             suggestions[Len(suggestions)])

generate_suggestions(conflicts, waypoints, start_time, end_time) ==
    IF conflicts = <<>> THEN <<>>
    ELSE LET conflict_times == [i \in 1..Len(conflicts) |-> conflicts[i].time]
             mission_duration == end_time - start_time
             delay_needed == DelayNeeded(conflict_times)
             \* new_duration = mission_duration / 1.2
             new_duration == RoundDiv(5 * mission_duration, 6)
         IN  SortByPriority(
                 (IF delay_needed > 0
                  THEN <<[type |-> "time_shift",
                          new_start_time |-> start_time + delay_needed,
                          new_end_time |-> end_time + delay_needed,
                          priority |-> 1]>>
                  ELSE <<>>)
                 \o <<[type |-> "altitude_adjustment", priority |-> 2]>>
                 \o (IF MultipleWaypoints(waypoints)
                     THEN <<[type |-> "path_deviation",
                             waypoint |-> AvgConflictPos(conflicts),
                             priority |-> 3]>>
                     ELSE <<>>)
                 \o (IF LongMission(mission_duration)
                     THEN <<[type |-> "speed_adjustment",
                             new_end_time |-> start_time + new_duration,
                             priority |-> 4]>>
                     ELSE <<>>))

(***************************************************************************)
(* State                                                                   *)
(***************************************************************************)
VARIABLES
    future_trajectory,  \* the committed rows of table future_trajectory
    db_writer,          \* the worker whose write transaction is open, or 0
    wal,                \* the uncommitted rows of that transaction
    drones,             \* table drones: drone_id -> current position, <<>> with no row
    missions,           \* table missions
    conflicts,          \* table conflicts (the conflict log)
    wk,                 \* the pool threads running _schedule_worker
    n_requests,         \* submissions accepted by /api/schedule so far
    commit_seq,         \* number of trajectory commits so far
    reader,             \* the last GET /api/future/trajectories
    fn,                 \* the call under study in the single-function specifications
    live,               \* drone_controller.drones: drone_id -> link and last position
    alerts,             \* the conflict_alert events emitted so far
    update_counter,     \* update_loop: the polls made so far
    drone_update,       \* the conflicts of the last drone_update event emitted
    commands,           \* the commands sent to the drones so far
    today,              \* the wall clock: days since the system started
    threads             \* the runs of _execute_mission, by mission id

\* what the controller, the update loop and the alert stream hold
realtime == <<live, alerts, update_counter, drone_update, commands, today, threads>>

vars == <<future_trajectory, db_writer, wal, drones, missions, conflicts, wk,
          n_requests, commit_seq, reader, fn, live, alerts, update_counter,
          drone_update, commands, today, threads>>

(***************************************************************************)
(* Bounds and the inputs the actions draw from                             *)
(***************************************************************************)
\* submissions over a run
MaxRequests == 2

\* threads of _background_executor that the model runs (the pool has 4)
Workers == {1, 2}

\* drone ids a submission names (the fleet is [1, 2, 3, 4])
DroneIds == {1, 2}

\* positions, in metres
Pos(x, y, z) == <<x * MM, y * MM, z * MM>>

\* get_drone_current_position: "Default position if not found"
DefaultPosition == Pos(0, 0, 10)

\* positions the recording loop reports
ReportedPositions == {Pos(10, 0, 10)}

\* the concurrent specification: waypoint lists and [start_time, end_time]
\* windows a request carries, cutoffs of delete_old_future_trajectories
WaypointChoices == {<<Pos(0, 0, 10)>>, <<Pos(10, 0, 10)>>}

WindowChoices == {<<0, 200000>>}

CutoffChoices == {500000}

\* the one-worker specification: the same, with an empty list, a list of two
\* legs, a window across a second's boundary and an empty window
SeqWaypointChoices ==
    {<<>>, <<Pos(0, 0, 10)>>, <<Pos(10, 0, 10)>>, <<Pos(10, 0, 10), Pos(0, 0, 10)>>}

SeqWindowChoices == {<<0, 200000>>, <<900000, 1100000>>, <<1000000, 1000000>>}

SeqCutoffChoices == {500000, 1000000, 1500000}

\* the reader specification: windows of a request and of
\* GET /api/future/trajectories
ReadWindows == {<<0, 200000>>, <<900000, 1100000>>}

\* the generator on its own: waypoint lists of up to MaxLegs points of
\* GenPoints, flown from a point of GenPoints over a window of GenWindows.
\* (On all these inputs the floating-point arithmetic of the code and the
\* exact arithmetic of generate_4d_trajectory above give the same samples.)
MaxLegs == 3

GenPoints == {Pos(0, 0, 10), Pos(10, 0, 10), Pos(20, 0, 10)}

GenWindows == {<<0, 200000>>, <<0, 1000000>>, <<1000000, 1000000>>, <<200000, 0>>}

RECURSIVE ListsOver(_, _)
ListsOver(points, len) ==
    IF len = 0 THEN {<<>>}
    ELSE {Append(l, p) : l \in ListsOver(points, len - 1), p \in points}

GenWaypointLists == UNION {ListsOver(GenPoints, len) : len \in 0..MaxLegs}

\* the store on its own: the trajectories put
PutOrigins == {Pos(0, 0, 10)}

PutWaypointChoices ==
    {<<Pos(0, 0, 10)>>, <<Pos(10, 0, 10)>>, <<Pos(10, 0, 10), Pos(0, 0, 10)>>}

PutWindows == {<<0, 200000>>, <<900000, 1100000>>}

\* the check on its own: what the two trajectories are generated from
CheckOrigins == {Pos(0, 0, 10), Pos(10, 0, 10)}

CheckWaypointChoices ==
    {<<Pos(0, 0, 10)>>, <<Pos(10, 0, 10)>>, <<Pos(10, 0, 10), Pos(0, 0, 10)>>}

\* points a drone hovers at: at safety_buffer from the origin and just inside
CheckHovers == {Pos(2, 0, 10), <<1999, 0, 10000>>}

CheckWindows ==
    {<<0, 200000>>, <<0, 1000000>>, <<500000, 700000>>, <<50000, 250000>>}

NoRequest ==
    [pc |-> "idle", drone_id |-> 0, waypoints |-> <<>>, start_time |-> 0,
     end_time |-> 0, new_trajectory |-> <<>>, found |-> <<>>,
     k |-> 0, result |-> "none", mission_id |-> NULL,
     n |-> 0, with |-> {}, clean |-> FALSE, q_seq |-> 0, c_seq |-> 0]

NoRead == [n |-> 0, window |-> <<0, 0>>, result |-> <<>>, during |-> 0]

NoCall == [op |-> "none"]

\* schedule_mission, lines 40-47: the thread of a mission that starts later,
\* entered in active_missions and asleep in _execute_mission_delayed; i
\* counts the waypoints gone to and sent lists the commands of the run
Sleeping(start_time, end_time) ==
    [pc |-> "sleeping", delayed |-> TRUE, start_time |-> start_time,
     end_time |-> end_time, i |-> 0, sent |-> <<>>]

\* the database init_db leaves and the idle pool
InitTables ==
    /\ future_trajectory = <<>>
    /\ db_writer = 0
    /\ wal = <<>>
    /\ drones = [d \in DroneIds |-> <<>>]
    /\ missions = <<>>
    /\ conflicts = <<>>
    /\ wk = [w \in Workers |-> NoRequest]
    /\ n_requests = 0
    /\ commit_seq = 0
    /\ reader = NoRead

\* connect_all: a drone that answered, no position received yet
Connected == [master |-> TRUE, position |-> <<>>]

\* connect_all: the placeholder of a drone that did not answer
Disconnected == [master |-> FALSE, position |-> <<>>]

\* every drone connected, nothing emitted or commanded yet
InitRealtime ==
    /\ live = [d \in DroneIds |-> Connected]
    /\ alerts = <<>>
    /\ update_counter = 0
    /\ drone_update = <<>>
    /\ commands = {}
    /\ today = 0

\* no mission yet, so no thread of the executor
InitDb == InitTables /\ InitRealtime /\ threads = <<>>

Init == InitDb /\ fn = NoCall

(***************************************************************************)
(* database.py: what a connection reads                                    *)
(***************************************************************************)
\* a connection that read the writer's uncommitted rows (read_uncommitted
\* over a shared cache), which get_db_connection does not open
ReadUncommitted == IF db_writer # 0 THEN wal ELSE future_trajectory

\* The rows a SELECT sees: the committed ones.  Under WAL a reader never
\* sees the rows of a transaction that has not committed.
ReadView == future_trajectory

\* get_drone_current_position
get_drone_current_position(drone_id) ==
    IF drones[drone_id] # <<>> THEN drones[drone_id] ELSE DefaultPosition

(***************************************************************************)
(* app.py / deconfliction_engine.py: one submission, step by step.  Each   *)
(* step is one database transaction (or the computation before it).        *)
(***************************************************************************)
\* the pool thread a new task runs on: the first free one
FreeWorker(w) ==
    /\ wk[w].pc \in {"idle", "done"}
    /\ \A v \in Workers : v < w => wk[v].pc \notin {"idle", "done"}

\* a check_mission_conflict that went on with an empty trajectory
NeverFailed(new_trajectory) == FALSE

\* check_mission_conflict, line 275: if not new_trajectory
GenerationFailed(new_trajectory) == new_trajectory = <<>>

\* api_schedule_mission hands the request to a pool thread, which runs
\* _schedule_worker up to check_mission_conflict, lines 264-281: current
\* position and trajectory.  (A task waiting in the pool's queue is a
\* request not yet submitted.)
Submit(w, drone_id, waypoints, window) ==
    /\ FreeWorker(w)
    /\ n_requests < MaxRequests
    /\ drone_id \in {1, 2, 3, 4}
    /\ LET current_pos == get_drone_current_position(drone_id)
           new_trajectory == generate_4d_trajectory(drone_id, current_pos,
                                 waypoints, window[1], window[2])
           r == [NoRequest EXCEPT !.drone_id = drone_id, !.waypoints = waypoints,
                                  !.start_time = window[1], !.end_time = window[2],
                                  !.n = n_requests + 1,
                                  !.with = {wk[v].n : v \in {u \in Workers :
                                                wk[u].pc \notin {"idle", "done"}}}]
       IN  wk' = [wk EXCEPT ![w] =
                     IF GenerationFailed(new_trajectory)
                     THEN [r EXCEPT !.pc = "done", !.result = "invalid"]
                     ELSE [r EXCEPT !.pc = "query",
                                    !.new_trajectory = new_trajectory,
                                    !.clean =
                                        check_trajectory_conflicts(new_trajectory,
                                            WithoutDrone(get_future_trajectories(
                                                future_trajectory, window[1],
                                                window[2]), drone_id)) = <<>>]]
    /\ n_requests' = n_requests + 1
    /\ UNCHANGED <<future_trajectory, db_writer, wal, drones, missions,
                   conflicts, commit_seq, reader, fn,
                   realtime>>

\* a check_mission_conflict that took every conflict list for an empty one
NeverConflicts(found) == FALSE

\* check_mission_conflict, line 293: if conflicts
HasConflicts(found) == found # <<>>

\* check_mission_conflict, lines 283-291: the other drones' trajectories in
\* the window (one SELECT) and the check against them
QueryExisting(w) ==
    /\ wk[w].pc = "query"
    /\ LET r == wk[w]
           existing_trajectories ==
               WithoutDrone(get_future_trajectories(ReadView, r.start_time,
                                                    r.end_time), r.drone_id)
           found == check_trajectory_conflicts(r.new_trajectory, existing_trajectories)
       IN  wk' = [wk EXCEPT ![w] =
                     [r EXCEPT !.pc = IF HasConflicts(found) THEN "log" ELSE "store",
                               !.found = found,
                               !.q_seq = commit_seq]]
    /\ UNCHANGED <<future_trajectory, db_writer, wal, drones, missions,
                   conflicts, n_requests, commit_seq, reader, fn,
                   realtime>>

\* the row log_conflict inserts; column timestamp defaults to CURRENT_TIMESTAMP,
\* kept here to the day
LoggedConflict(c) ==
    [drone1_id |-> c.drone1_id, drone2_id |-> c.drone2_id,
     distance |-> c.distance, position |-> c.position, conflict_time |-> c.time,
     timestamp |-> today]

\* a worker that logs the conflicts and goes on to schedule the mission
ScheduleAnyway(w) ==
    /\ wk[w].pc = "log"
    /\ db_writer = 0
    /\ conflicts' = conflicts \o
           [i \in 1..Len(wk[w].found) |-> LoggedConflict(wk[w].found[i])]
    /\ wk' = [wk EXCEPT ![w].pc = "schedule"]
    /\ UNCHANGED <<future_trajectory, db_writer, wal, drones, missions,
                   n_requests, commit_seq, reader, fn,
                   realtime>>

\* check_trajectory_conflicts, lines 250-252, and check_mission_conflict,
\* lines 294-309: every conflict found is logged and the mission rejected
LogConflicts(w) ==
    /\ wk[w].pc = "log"
    /\ db_writer = 0
    /\ conflicts' = conflicts \o
           [i \in 1..Len(wk[w].found) |-> LoggedConflict(wk[w].found[i])]
    /\ wk' = [wk EXCEPT ![w].pc = "done", ![w].result = "rejected"]
    /\ UNCHANGED <<future_trajectory, db_writer, wal, drones, missions,
                   n_requests, commit_seq, reader, fn,
                   realtime>>

\* store_future_trajectory: the DELETE opens the write transaction
StoreDelete(w) ==
    /\ wk[w].pc = "store"
    /\ db_writer = 0
    /\ db_writer' = w
    /\ wal' = DeleteDroneRows(future_trajectory, wk[w].drone_id)
    /\ wk' = [wk EXCEPT ![w].pc = "insert", ![w].k = 1]
    /\ UNCHANGED <<future_trajectory, drones, missions, conflicts, n_requests,
                   commit_seq, reader, fn,
                   realtime>>

\* store_future_trajectory: one INSERT of the loop
StoreInsert(w) ==
    /\ wk[w].pc = "insert"
    /\ db_writer = w
    /\ wk[w].k <= Len(wk[w].new_trajectory)
    /\ wal' = Append(wal, StoredRow(wk[w].new_trajectory[wk[w].k], NULL))
    /\ wk' = [wk EXCEPT ![w].k = @ + 1]
    /\ UNCHANGED <<future_trajectory, db_writer, drones, missions, conflicts,
                   n_requests, commit_seq, reader, fn,
                   realtime>>

\* get_db_connection: conn.commit() on leaving the with block
StoreCommit(w) ==
    /\ wk[w].pc = "insert"
    /\ db_writer = w
    /\ wk[w].k > Len(wk[w].new_trajectory)
    /\ future_trajectory' = wal
    /\ wal' = <<>>
    /\ db_writer' = 0
    /\ commit_seq' = commit_seq + 1
    /\ wk' = [wk EXCEPT ![w].pc = "schedule", ![w].k = 0,
                        ![w].c_seq = commit_seq + 1]
    /\ UNCHANGED <<drones, missions, conflicts, n_requests, reader, fn,
                   realtime>>

\* _schedule_worker, lines 254-264: schedule_mission creates the mission and,
\* its start_time lying ahead, the thread that waits for it
ScheduleMission(w) ==
    /\ wk[w].pc = "schedule"
    /\ db_writer = 0
    /\ LET r == wk[w]
           mission_id == Len(missions) + 1
       IN  /\ missions' = Append(missions,
                              [mission_id |-> mission_id, drone_id |-> r.drone_id,
                               waypoints |-> r.waypoints,
                               start_time |-> StrfTime(r.start_time),
                               end_time |-> StrfTime(r.end_time),
                               status |-> "scheduled"])
           /\ wk' = [wk EXCEPT ![w] =
                        [r EXCEPT !.pc = "done", !.result = "accepted",
                                  !.mission_id = mission_id]]
    /\ threads' = Append(threads, Sleeping(wk[w].start_time, wk[w].end_time))
    /\ UNCHANGED <<future_trajectory, db_writer, wal, drones, conflicts,
                   n_requests, commit_seq, reader, fn,
                   live, alerts, update_counter, drone_update, commands, today>>

(***************************************************************************)
(* The other users of the database                                         *)
(***************************************************************************)
\* _recording_loop: update_drone_status(drone_id, current_x, current_y, current_z)
RecordPosition(drone_id, position) ==
    /\ db_writer = 0
    /\ drones[drone_id] # position
    /\ drones' = [drones EXCEPT ![drone_id] = position]
    /\ UNCHANGED <<future_trajectory, db_writer, wal, missions, conflicts, wk,
                   n_requests, commit_seq, reader, fn,
                   realtime>>

\* forget: delete_future_trajectory(drone_id=...)
Forget(drone_id) ==
    /\ db_writer = 0
    /\ future_trajectory' = delete_future_trajectory(future_trajectory, drone_id, NULL)
    /\ future_trajectory' # future_trajectory
    /\ UNCHANGED <<db_writer, wal, drones, missions, conflicts, wk, n_requests,
                   commit_seq, reader, fn,
                   realtime>>

\* gc: delete_old_future_trajectories(cutoff_time)
Gc(cutoff_time) ==
    /\ db_writer = 0
    /\ future_trajectory' = delete_old_future_trajectories(future_trajectory, cutoff_time)
    /\ future_trajectory' # future_trajectory
    /\ UNCHANGED <<db_writer, wal, drones, missions, conflicts, wk, n_requests,
                   commit_seq, reader, fn,
                   realtime>>

\* what the open store_future_trajectory transaction will have written for
\* each drone once it commits (the committed rows where none is open)
PostImage ==
    IF db_writer = 0 THEN future_trajectory
    ELSE InsertPoints(DeleteDroneRows(future_trajectory, wk[db_writer].drone_id),
                      wk[db_writer].new_trajectory, 1, NULL)

\* api_get_future_trajectories: one SELECT, whatever the writers are doing
ReadTrajectories(window) ==
    /\ reader' = [n |-> 1 - reader.n,
                  window |-> window,
                  result |-> get_future_trajectories(ReadView, window[1], window[2]),
                  during |-> IF db_writer = 0 THEN 0 ELSE wk[db_writer].n]
    /\ UNCHANGED <<future_trajectory, db_writer, wal, drones, missions, conflicts,
                   wk, n_requests, commit_seq, fn,
                   realtime>>

Next ==
    \/ \E w \in Workers, d \in DroneIds, wps \in WaypointChoices, win \in WindowChoices :
           Submit(w, d, wps, win)
    \/ \E w \in Workers : QueryExisting(w)
    \/ \E w \in Workers : LogConflicts(w)
    \/ \E w \in Workers : StoreDelete(w)
    \/ \E w \in Workers : StoreInsert(w)
    \/ \E w \in Workers : StoreCommit(w)
    \/ \E w \in Workers : ScheduleMission(w)
    \/ \E d \in DroneIds, p \in ReportedPositions : RecordPosition(d, p)
    \/ \E d \in DroneIds : Forget(d)
    \/ \E c \in CutoffChoices : Gc(c)

Spec == Init /\ [][Next]_vars

\* One pool thread, so that submissions run one after the other, next to the
\* recording loop, forget and gc
NextSeq ==
    \/ \E d \in DroneIds, wps \in SeqWaypointChoices, win \in SeqWindowChoices :
           Submit(1, d, wps, win)
    \/ QueryExisting(1)
    \/ LogConflicts(1)
    \/ StoreDelete(1)
    \/ StoreInsert(1)
    \/ StoreCommit(1)
    \/ ScheduleMission(1)
    \/ \E d \in DroneIds, p \in ReportedPositions : RecordPosition(d, p)
    \/ \E d \in DroneIds : Forget(d)
    \/ \E c \in SeqCutoffChoices : Gc(c)

SpecSeq == Init /\ [][NextSeq]_vars

\* The same from a store that already holds two accepted missions: drone 1
\* hovering at the default position and drone 2, reported at (10, 0, 10),
\* hovering there, both over [0, 0.2 s]; the pool is idle again and the
\* requests of the run are counted from here.
BusyHover(drone_id, position) ==
    generate_4d_trajectory(drone_id, position, <<position>>, 0, 200000)

BusyMission(mission_id, drone_id, position) ==
    [mission_id |-> mission_id, drone_id |-> drone_id, waypoints |-> <<position>>,
     start_time |-> StrfTime(0), end_time |-> StrfTime(200000),
     status |-> "scheduled"]

InitBusy ==
    /\ future_trajectory =
           store_future_trajectory(
               store_future_trajectory(<<>>, 1, BusyHover(1, DefaultPosition), NULL),
               2, BusyHover(2, Pos(10, 0, 10)), NULL)
    /\ db_writer = 0
    /\ wal = <<>>
    /\ drones = [d \in DroneIds |-> IF d = 2 THEN Pos(10, 0, 10) ELSE <<>>]
    /\ missions = <<BusyMission(1, 1, DefaultPosition),
                    BusyMission(2, 2, Pos(10, 0, 10))>>
    /\ conflicts = <<>>
    /\ wk = [w \in Workers |-> NoRequest]
    /\ n_requests = 0
    /\ commit_seq = 2
    /\ reader = NoRead
    /\ fn = NoCall
    /\ InitRealtime
    /\ threads = <<Sleeping(0, 200000), Sleeping(0, 200000)>>

SpecBusy == InitBusy /\ [][NextSeq]_vars

\* One pool thread next to a reader of the trajectories
NextRead ==
    \/ \E d \in DroneIds, wps \in WaypointChoices, win \in ReadWindows :
           Submit(1, d, wps, win)
    \/ QueryExisting(1)
    \/ LogConflicts(1)
    \/ StoreDelete(1)
    \/ StoreInsert(1)
    \/ StoreCommit(1)
    \/ ScheduleMission(1)
    \/ \E d \in DroneIds, p \in ReportedPositions : RecordPosition(d, p)
    \/ \E win \in ReadWindows : ReadTrajectories(win)

SpecRead == Init /\ [][NextRead]_vars

(***************************************************************************)
(* The functions on their own: each action is one call, fn holds the call  *)
(* and what it returned                                                    *)
(***************************************************************************)
\* the arguments of a call of generate_4d_trajectory
GenCalls ==
    [op : {"call"}, drone_id : {1}, start_pos : GenPoints,
     waypoints : GenWaypointLists, window : GenWindows]

InitGen == InitDb /\ fn \in GenCalls

\* generate_4d_trajectory(drone_id, start_pos, waypoints, start_time, end_time)
Generate ==
    /\ fn.op = "call"
    /\ fn' = [op |-> "generate", drone_id |-> fn.drone_id,
              start_pos |-> fn.start_pos, waypoints |-> fn.waypoints,
              start_time |-> fn.window[1], end_time |-> fn.window[2],
              trajectory |-> generate_4d_trajectory(fn.drone_id, fn.start_pos,
                                 fn.waypoints, fn.window[1], fn.window[2]),
              error |-> generate_error(fn.waypoints, fn.window[1], fn.window[2])]
    /\ UNCHANGED <<future_trajectory, db_writer, wal, drones, missions, conflicts,
                   wk, n_requests, commit_seq, reader,
                   realtime>>

NextGen == Generate

SpecGen == InitGen /\ [][NextGen]_vars

\* store_future_trajectory(drone_id, trajectory) of a generated trajectory, as
\* one transaction; fn keeps the rows before it and whether the call before
\* it was the same one
Put(drone_id, start_pos, waypoints, window) ==
    LET trajectory == generate_4d_trajectory(drone_id, start_pos, waypoints,
                                             window[1], window[2])
    IN  /\ trajectory # <<>>
        /\ db_writer = 0
        /\ future_trajectory' =
               store_future_trajectory(future_trajectory, drone_id, trajectory, NULL)
        /\ fn' = [op |-> "put", drone_id |-> drone_id, trajectory |-> trajectory,
                  before |-> future_trajectory,
                  again |-> /\ fn.op = "put"
                            /\ fn.drone_id = drone_id
                            /\ fn.trajectory = trajectory]
        /\ UNCHANGED <<db_writer, wal, drones, missions, conflicts, wk,
                       n_requests, commit_seq, reader,
                   realtime>>

\* get_future_trajectories(start, end) right after a put, over the span of
\* the trajectory put
QueryBack ==
    /\ fn.op = "put"
    /\ LET trajectory == fn.trajectory
           start_time == trajectory[1].timestamp
           end_time == trajectory[Len(trajectory)].timestamp
           found == get_future_trajectories(ReadView, start_time, end_time)
       IN  fn' = [op |-> "query", drone_id |-> fn.drone_id,
                  trajectory |-> trajectory,
                  start_time |-> start_time, end_time |-> end_time,
                  result |-> IF fn.drone_id \in DOMAIN found
                             THEN found[fn.drone_id] ELSE <<>>]
    /\ UNCHANGED <<future_trajectory, db_writer, wal, drones, missions, conflicts,
                   wk, n_requests, commit_seq, reader,
                   realtime>>

NextStore ==
    \/ \E d \in DroneIds, o \in PutOrigins, wps \in PutWaypointChoices,
          win \in PutWindows : Put(d, o, wps, win)
    \/ QueryBack

SpecStore == Init /\ [][NextStore]_vars

\* the arguments of the two calls of check_trajectory_conflicts: a generated
\* trajectory of drone 1 and one of drone 2
CheckTrajectories(drone_id) ==
    {generate_4d_trajectory(drone_id, o, wps, win[1], win[2]) :
        o \in CheckOrigins, wps \in CheckWaypointChoices, win \in CheckWindows}
    \cup {generate_4d_trajectory(drone_id, h, <<h>>, win[1], win[2]) :
              h \in CheckHovers, win \in CheckWindows}

CheckCalls == [op : {"call"}, a : CheckTrajectories(1), b : CheckTrajectories(2)]

InitCheck == InitDb /\ fn \in CheckCalls

\* check_trajectory_conflicts of the trajectory of drone 1 against that of
\* drone 2 and the other way round; every conflict found is logged
Check ==
    /\ fn.op = "call"
    /\ db_writer = 0
    /\ LET ab == check_trajectory_conflicts(fn.a, [d \in {2} |-> fn.b])
           ba == check_trajectory_conflicts(fn.b, [d \in {1} |-> fn.a])
       IN  /\ conflicts' = conflicts
                  \o [i \in 1..Len(ab) |-> LoggedConflict(ab[i])]
                  \o [i \in 1..Len(ba) |-> LoggedConflict(ba[i])]
           /\ fn' = [op |-> "check", a |-> fn.a, b |-> fn.b, ab |-> ab, ba |-> ba]
    /\ UNCHANGED <<future_trajectory, db_writer, wal, drones, missions, wk,
                   n_requests, commit_seq, reader,
                   realtime>>

NextCheck == Check

SpecCheck == InitCheck /\ [][NextCheck]_vars

\* The suggestions of check_mission_conflict on its own: drone 1, at the
\* default position, asks for a mission while the store holds a trajectory
\* of drone 2
SuggestMoves ==
    {<<wps, <<0, 1000000>>>> :
        wps \in {<<Pos(10, 0, 10)>>, <<Pos(10, 0, 10), Pos(0, 0, 10)>>}}

\* missions that stay at the default position, over one, ten and twelve
\* seconds
SuggestHovers ==
    {<<wps, win>> :
        wps \in {<<Pos(0, 0, 10)>>, <<Pos(0, 0, 10), Pos(0, 0, 10)>>},
        win \in {<<0, 1000000>>, <<0, 10000000>>, <<0, 12000000>>}}

SuggestCalls ==
    {[op |-> "call", waypoints |-> m[1], window |-> m[2], other |-> t] :
        m \in SuggestMoves \cup SuggestHovers, t \in CheckTrajectories(2)}

InitSuggest == InitDb /\ fn \in SuggestCalls

\* check_mission_conflict, lines 270-309, without the store: the trajectory,
\* the conflicts with the other drone's and the suggestions of the result
Suggest ==
    /\ fn.op = "call"
    /\ LET new_trajectory == generate_4d_trajectory(1, DefaultPosition,
                                 fn.waypoints, fn.window[1], fn.window[2])
           found == check_trajectory_conflicts(new_trajectory, [d \in {2} |-> fn.other])
       IN  fn' = [op |-> "suggest", waypoints |-> fn.waypoints,
                  start_time |-> fn.window[1], end_time |-> fn.window[2],
                  conflicts |-> found,
                  suggestions |-> IF HasConflicts(found)
                                  THEN generate_suggestions(found, fn.waypoints,
                                           fn.window[1], fn.window[2])
                                  ELSE <<>>]
    /\ UNCHANGED <<future_trajectory, db_writer, wal, drones, missions, conflicts,
                   wk, n_requests, commit_seq, reader,
                   realtime>>

NextSuggest == Suggest

SpecSuggest == InitSuggest /\ [][NextSuggest]_vars

(***************************************************************************)
(* app.py: the update loop and check_realtime_conflicts; drone_controller: *)
(* the status of the drones.  Of a drone_update event its conflicts are    *)
(* kept; the clock readings of the events are left out.                    *)
(***************************************************************************)
\* the tables and the submissions, which the update loop never touches
coordinator == <<future_trajectory, db_writer, wal, drones, missions, conflicts,
                 wk, n_requests, commit_seq, reader, fn>>

\* polls over a run
MaxPolls == 3

\* the positions a GLOBAL_POSITION_INT of drone 2 is converted to: on the x
\* axis at 0.8, 1, 1.2, 1.5, 1.6, 2, 2.1 and 3 m
MonitorPositions ==
    {<<x, 0, 0>> : x \in {800, 1000, 1200, 1500, 1600, 2000, 2100, 3000}}

\* get_drone_status: 'position': self.drones[drone_id]['position'] or the origin
StatusPosition(d) ==
    IF live[d].position = <<>> THEN <<0, 0, 0>> ELSE live[d].position

\* get_all_status: a status for every drone with a connection
get_all_status ==
    [d \in {e \in DroneIds : live[e].master} |-> [position |-> StatusPosition(d)]]

\* a monitor that counts a pair at the buffer itself as too close
AtOrBelowBuffer(distance_sq) == distance_sq <= 2000 * 2000

\* if distance < 2.0
BelowBuffer(distance_sq) == distance_sq < 2000 * 2000

\* 'high' if distance < 1.0 else 'medium' if distance < 1.5 else 'low'
Severity(distance_sq) ==
    IF distance_sq < 1000 * 1000 THEN "high"
    ELSE IF distance_sq < 1500 * 1500 THEN "medium"
    ELSE "low"

\* the conflict built for one pair of statuses
RealtimeConflict(drone1_id, drone2_id, pos1, pos2) ==
    [drone1 |-> drone1_id,
     drone2 |-> drone2_id,
     distance |-> Norm(pos1, pos2),
     position |-> <<(pos1[1] + pos2[1]) \div 2, (pos1[2] + pos2[2]) \div 2,
                    (pos1[3] + pos2[3]) \div 2>>,
     severity |-> Severity(DistSq(pos1, pos2))]

\* the loops over i and j > i of check_realtime_conflicts, from pair (i, j) on
RECURSIVE RealtimePairs(_, _, _, _)
RealtimePairs(statuses, ids, i, j) ==
    IF i > Len(ids) THEN <<>>
    ELSE IF j > Len(ids) THEN RealtimePairs(statuses, ids, i + 1, i + 2)
    ELSE LET pos1 == statuses[ids[i]].position
             pos2 == statuses[ids[j]].position
         IN  (IF BelowBuffer(DistSq(pos1, pos2))
              THEN <<RealtimeConflict(ids[i], ids[j], pos1, pos2)>>
              ELSE <<>>)
             \o RealtimePairs(statuses, ids, i, j + 1)

check_realtime_conflicts(statuses) ==
    RealtimePairs(statuses, SortedIds(DOMAIN statuses), 1, 2)

\* get_drone_status: a GLOBAL_POSITION_INT of a connected drone is taken in
Telemetry(d, position) ==
    /\ live[d].master
    /\ live[d].position # position
    /\ live' = [live EXCEPT ![d].position = position]
    /\ UNCHANGED <<coordinator, alerts, update_counter, drone_update, commands, today, threads>>

\* _reconnect_drone, tried by get_drone_status for a drone without a
\* connection (which has no status in that poll): it succeeds or fails
AfterReconnect(new) ==
    \A d \in DroneIds :
        IF live[d].master THEN new[d] = live[d]
        ELSE new[d] \in {Connected, Disconnected}

\* update_loop, one iteration: the statuses, the conflicts among them, one
\* conflict_alert for each of them, and the drone_update
Poll ==
    /\ update_counter < MaxPolls
    /\ alerts' = alerts \o check_realtime_conflicts(get_all_status)
    /\ drone_update' = check_realtime_conflicts(get_all_status)
    /\ update_counter' = update_counter + 1
    /\ live' \in [DroneIds -> {Connected, Disconnected} \cup {live[d] : d \in DroneIds}]
    /\ AfterReconnect(live')
    /\ UNCHANGED <<coordinator, commands, today, threads>>

InitMonitor ==
    /\ InitTables
    /\ fn = NoCall
    /\ live \in [DroneIds -> {Connected, Disconnected}]
    /\ alerts = <<>>
    /\ update_counter = 0
    /\ drone_update = <<>>
    /\ commands = {}
    /\ today = 0
    /\ threads = <<>>

NextMonitor ==
    \/ \E p \in MonitorPositions : Telemetry(2, p)
    \/ Poll

SpecMonitor == InitMonitor /\ [][NextMonitor]_vars

\* a failed write that left behind what the transaction had written so far
KeepPartial(committed, uncommitted) == uncommitted

\* get_db_connection: conn.rollback() discards what the transaction wrote
Rollback(committed, uncommitted) == committed

\* store_future_trajectory: a statement of the open transaction (an INSERT or
\* the commit) raises; get_db_connection rolls back and raises again, and
\* _schedule_worker, lines 266-272, reports the error
StoreFail(w) ==
    /\ wk[w].pc = "insert"
    /\ db_writer = w
    /\ future_trajectory' = Rollback(future_trajectory, wal)
    /\ wal' = <<>>
    /\ db_writer' = 0
    /\ wk' = [wk EXCEPT ![w].pc = "done", ![w].result = "error"]
    /\ UNCHANGED <<drones, missions, conflicts, n_requests, commit_seq, reader, fn,
                   realtime>>

\* the submissions and the store's other users, with writes that may fail,
\* from a store that holds two accepted missions
NextFail ==
    \/ NextSeq
    \/ StoreFail(1)

SpecFail == InitBusy /\ [][NextFail]_vars

\* trajectory_cleanup.py, started as the cleanup service: its line 7 imports
\* cleanup_expired_trajectories from database, which defines no such
\* function, so the module raises ImportError before run_cleanup_service is
\* reached; fn records the call and how it ended
CleanupService ==
    /\ fn = NoCall
    /\ fn' = [op |-> "run_cleanup_service", error |-> "ImportError"]
    /\ UNCHANGED <<future_trajectory, db_writer, wal, drones, missions, conflicts,
                   wk, n_requests, commit_seq, reader, realtime>>

\* what runs in the system as started: the pool thread with its submissions,
\* the recording loop and the cleanup service.  Nothing in it calls
\* delete_future_trajectory or delete_old_future_trajectories.
WorkerStep ==
    \/ QueryExisting(1)
    \/ LogConflicts(1)
    \/ StoreDelete(1)
    \/ StoreInsert(1)
    \/ StoreCommit(1)
    \/ ScheduleMission(1)

NextLive ==
    \/ \E d \in DroneIds, wps \in SeqWaypointChoices, win \in SeqWindowChoices :
           Submit(1, d, wps, win)
    \/ WorkerStep
    \/ \E d \in DroneIds, p \in ReportedPositions : RecordPosition(d, p)
    \/ CleanupService

\* a thread that can take a step takes one in the end; so does the service
SpecLive ==
    Init /\ [][NextLive]_vars /\ WF_vars(WorkerStep) /\ WF_vars(CleanupService)

\* api_emergency_stop: emergency_stop_all sets every connected drone to RTL
\* and then disarms it; a drone_update without conflicts follows
EmergencyStop ==
    /\ commands' = commands
           \cup {<<"RTL", d>> : d \in {e \in DroneIds : live[e].master}}
           \cup {<<"DISARM", d>> : d \in {e \in DroneIds : live[e].master}}
    /\ drone_update' = <<>>
    /\ UNCHANGED <<coordinator, live, alerts, update_counter, today, threads>>

\* the submissions, the store's other users and the emergency stop, from a
\* store that holds two accepted missions
NextEmergency ==
    \/ NextSeq
    \/ EmergencyStop

SpecEmergency == InitBusy /\ [][NextEmergency]_vars

(***************************************************************************)
(* Claims about the store and the submissions                              *)
(***************************************************************************)
\* the rows store_future_trajectory writes for a trajectory
RowsOfTrajectory(trajectory) ==
    [i \in 1..Len(trajectory) |-> StoredRow(trajectory[i], NULL)]

\* two committed rows of distinct drones within the alignment tolerance in time
Aligned(a, b) ==
    /\ a.drone_id # b.drone_id
    /\ Abs(ParseTime(a.timestamp) - ParseTime(b.timestamp)) <= TIME_TOLERANCE

\* C1: after any sequence of submit, forget and gc the store holds no
\* conflict: any two committed samples of distinct drones whose timestamps
\* differ by at most the alignment tolerance are at least safety_buffer apart.
C1_StoreHoldsNoConflict ==
    \A i, j \in 1..Len(future_trajectory) :
        Aligned(future_trajectory[i], future_trajectory[j])
            => ~TooClose(future_trajectory[i].position, future_trajectory[j].position)

\* the submission of worker w has been decided
Decided(w) == wk[w].pc = "done" /\ wk[w].result \in {"accepted", "rejected"}

\* the trajectories of two submissions conflict, checked either way round
MutuallyConflicting(v, w) ==
    /\ check_trajectory_conflicts(wk[v].new_trajectory,
           get_future_trajectories(RowsOfTrajectory(wk[w].new_trajectory),
                                   wk[v].start_time, wk[v].end_time)) # <<>>
    /\ check_trajectory_conflicts(wk[w].new_trajectory,
           get_future_trajectories(RowsOfTrajectory(wk[v].new_trajectory),
                                   wk[w].start_time, wk[w].end_time)) # <<>>

\* one of the two submissions was issued while the other was under way
Concurrent(v, w) == wk[v].n \in wk[w].with \/ wk[w].n \in wk[v].with

\* two decided concurrent submissions of different drones, with identical
\* windows and mutually conflicting trajectories, each issued against a store
\* that held nothing in conflict with it
Race(v, w) ==
    /\ v # w
    /\ Concurrent(v, w)
    /\ Decided(v) /\ Decided(w)
    /\ wk[v].drone_id # wk[w].drone_id
    /\ wk[v].start_time = wk[w].start_time /\ wk[v].end_time = wk[w].end_time
    /\ wk[v].clean /\ wk[w].clean
    /\ MutuallyConflicting(v, w)

\* C2: of two concurrent, mutually conflicting submissions of different
\* drones with identical windows exactly one is accepted and one rejected;
\* in no interleaving are both accepted.
C2_RaceHasOneWinner ==
    \A v, w \in Workers :
        Race(v, w) => /\ wk[v].result # wk[w].result
                      /\ "accepted" \in {wk[v].result, wk[w].result}

\* C3: submissions are serialized: no other submission's commit takes effect
\* between a submission's query and its own commit, so the commit a
\* submission makes is the first one after the state it queried.
C3_QueryToCommitIsAtomic ==
    \A w \in Workers : wk[w].c_seq # 0 => wk[w].c_seq = wk[w].q_seq + 1

(***************************************************************************)
(* Claims about readers and about what a commit leaves in the store        *)
(***************************************************************************)
\* the trajectory a query result holds for a drone, empty where it holds none
TrajectoryOf(trajectories, drone_id) ==
    IF drone_id \in DOMAIN trajectories THEN trajectories[drone_id] ELSE <<>>

\* what a query over the window returns for the drone from the given rows
Image(rows, window, drone_id) ==
    TrajectoryOf(get_future_trajectories(rows, window[1], window[2]), drone_id)

Sample(point) == [timestamp |-> point.timestamp, position |-> point.position]

\* the samples of a trajectory
SamplesOf(trajectory) == {Sample(trajectory[i]) : i \in 1..Len(trajectory)}

\* the samples the rows hold for a drone with timestamp in [start_time, end_time]
SamplesStored(rows, drone_id, start_time, end_time) ==
    {Sample(QueryPoint(rows[i])) :
        i \in {j \in 1..Len(rows) :
                  /\ rows[j].drone_id = drone_id
                  /\ start_time <= ParseTime(rows[j].timestamp)
                  /\ ParseTime(rows[j].timestamp) <= end_time}}

\* C5: a drone has at most one committed trajectory: once a new trajectory
\* for drone D in window [s, e] is committed, the samples stored for D in
\* [s, e] are exactly the samples of the new trajectory, none of the earlier
\* ones remaining.
C5_CommitLeavesExactlyTheNewSamples ==
    [][\A w \in Workers :
          (wk[w].pc = "insert" /\ wk'[w].pc = "schedule") =>
              SamplesStored(future_trajectory', wk[w].drone_id,
                            wk[w].start_time, wk[w].end_time)
                  = SamplesOf(wk[w].new_trajectory)]_vars

(***************************************************************************)
(* Claims about the generator                                              *)
(***************************************************************************)
\* generate_4d_trajectory has returned a trajectory for a non-empty waypoint
\* list and end_time > start_time
Generated ==
    /\ fn.op = "generate"
    /\ fn.waypoints # <<>>
    /\ fn.end_time > fn.start_time
    /\ fn.trajectory # <<>>

\* C6: the first sample of a generated trajectory has timestamp start_time
\* and position origin, and its last sample has timestamp end_time.
C6_FirstAndLastSample ==
    Generated =>
        /\ fn.trajectory[1].timestamp = fn.start_time
        /\ fn.trajectory[1].position = fn.start_pos
        /\ fn.trajectory[Len(fn.trajectory)].timestamp = fn.end_time

\* C7: a generated trajectory is strictly monotone in timestamp, across the
\* boundary between two legs and over legs of zero length too.
C7_StrictlyMonotone ==
    Generated =>
        \A i \in 2..Len(fn.trajectory) :
            fn.trajectory[i].timestamp > fn.trajectory[i - 1].timestamp

(***************************************************************************)
(* Claims about put and query                                              *)
(***************************************************************************)
\* the samples of a trajectory in their order
SampleSeq(trajectory) == [i \in 1..Len(trajectory) |-> Sample(trajectory[i])]

\* C8: committing a generated trajectory T and then querying over
\* (T[0].time, T[-1].time) returns exactly T for that drone: as many samples,
\* with the same timestamps and positions, in the same order.
C8_RoundTrip ==
    fn.op = "query" => SampleSeq(fn.result) = SampleSeq(fn.trajectory)

\* C9: two consecutive put(D, T) leave the committed samples of every drone
\* as a single put(D, T) leaves them.
C9_PutIsIdempotent ==
    (fn.op = "put" /\ fn.again) =>
        \A d \in DroneIds :
            RowsOfDrone(future_trajectory, d) = RowsOfDrone(fn.before, d)

\* the same trajectory of several samples has been put twice in a row for a
\* drone, next to a trajectory of the other drone
C9_PutTwice ==
    /\ fn.op = "put" /\ fn.again
    /\ Len(fn.trajectory) > 1
    /\ Len(RowsOfDrone(future_trajectory, fn.drone_id)) = Len(fn.trajectory)
    /\ \E d \in DroneIds \ {fn.drone_id} : RowsOfDrone(future_trajectory, d) # <<>>

(***************************************************************************)
(* Claims about the check                                                  *)
(***************************************************************************)
\* a conflict as the pair of samples it is about: drone and timestamp of the
\* one, drone and timestamp of the other, and their distance
ConflictPair(c) ==
    <<c.drone1_id, c.timestamp1, c.drone2_id, c.timestamp2, c.distance>>

\* the same with the roles of the two drones swapped
SwappedPair(c) ==
    <<c.drone2_id, c.timestamp2, c.drone1_id, c.timestamp1, c.distance>>

\* C10: check(A, {B}) and check(B, {A}) report the same conflicts up to
\* swapping the roles of the two drones; one is empty iff the other is.
C10_CheckIsSymmetric ==
    fn.op = "check" =>
        /\ (fn.ab = <<>>) <=> (fn.ba = <<>>)
        /\ {ConflictPair(fn.ab[i]) : i \in 1..Len(fn.ab)}
               = {SwappedPair(fn.ba[i]) : i \in 1..Len(fn.ba)}

\* the pairs check_trajectory_conflicts compares in the call of a against b
ComparedPairs == align_trajectories_by_time(fn.a, fn.b)

\* the conflicts of the call, each as timestamp of the candidate's sample,
\* timestamp of the other drone's sample and distance
Reported ==
    {<<fn.ab[i].timestamp1, fn.ab[i].timestamp2, fn.ab[i].distance>> :
        i \in 1..Len(fn.ab)}

\* an aligned pair as Reported would hold it
PairKey(pair) ==
    <<pair[1].timestamp, pair[2].timestamp, DistSq(pair[1].position, pair[2].position)>>

\* C11: the comparison with the safety buffer is strict: an aligned pair at
\* exactly safety_buffer (or further) gives no conflict, an aligned pair at
\* any distance below safety_buffer gives one.
C11_BufferIsStrict ==
    fn.op = "check" =>
        \A i \in 1..Len(ComparedPairs) :
            LET pair == ComparedPairs[i]
                dist_sq == DistSq(pair[1].position, pair[2].position)
            IN  /\ dist_sq >= safety_buffer * safety_buffer
                       => PairKey(pair) \notin Reported
                /\ dist_sq < safety_buffer * safety_buffer
                       => PairKey(pair) \in Reported

\* a call has compared a pair at exactly safety_buffer, unreported, and a
\* pair just inside it, reported
C11_PairAtBuffer ==
    /\ fn.op = "check"
    /\ \E i \in 1..Len(ComparedPairs) :
           /\ DistSq(ComparedPairs[i][1].position, ComparedPairs[i][2].position)
                  = safety_buffer * safety_buffer
           /\ PairKey(ComparedPairs[i]) \notin Reported
    /\ \E i \in 1..Len(ComparedPairs) :
           /\ DistSq(ComparedPairs[i][1].position, ComparedPairs[i][2].position)
                  \in 1..(safety_buffer * safety_buffer - 1)
           /\ PairKey(ComparedPairs[i]) \in Reported

\* the least difference in time between a sample and the samples of a
\* non-empty trajectory
NearestDiff(point, trajectory) ==
    CHOOSE m \in {Abs(point.timestamp - trajectory[k].timestamp) :
                     k \in 1..Len(trajectory)} :
        \A k \in 1..Len(trajectory) :
            m <= Abs(point.timestamp - trajectory[k].timestamp)

\* C12: a sample of the candidate whose nearest sample of the other drone
\* is at most the alignment tolerance away, exactly the tolerance included,
\* is compared with a nearest one; a sample whose nearest counterpart is
\* further away in time is compared with nothing and yields no conflict.
C12_ToleranceIsInclusive ==
    fn.op = "check" =>
        \A i \in 1..Len(fn.a) :
            LET near == NearestDiff(fn.a[i], fn.b)
            IN  /\ near <= TIME_TOLERANCE =>
                       \E j \in 1..Len(ComparedPairs) :
                           /\ ComparedPairs[j][1] = fn.a[i]
                           /\ Abs(ComparedPairs[j][1].timestamp
                                  - ComparedPairs[j][2].timestamp) = near
                /\ near > TIME_TOLERANCE =>
                       /\ \A j \in 1..Len(ComparedPairs) :
                              ComparedPairs[j][1] # fn.a[i]
                       /\ \A c \in Reported : c[1] # fn.a[i].timestamp

\* a call in which one sample is exactly the tolerance from its nearest
\* counterpart and reported in conflict with it, and another is further away
C12_PairAtTolerance ==
    /\ fn.op = "check"
    /\ \E i \in 1..Len(fn.a) :
           /\ NearestDiff(fn.a[i], fn.b) = TIME_TOLERANCE
           /\ \E c \in Reported : c[1] = fn.a[i].timestamp
    /\ \E i \in 1..Len(fn.a) : NearestDiff(fn.a[i], fn.b) > TIME_TOLERANCE

\* the samples of the other drone as near in time to the candidate's sample
\* of an aligned pair as the one it was aligned with
EquallyNear(pair) ==
    {k \in 1..Len(fn.b) :
        Abs(pair[1].timestamp - fn.b[k].timestamp)
            = Abs(pair[1].timestamp - pair[2].timestamp)}

\* C29: when two samples of the other drone's trajectory are equally close in
\* time to a candidate sample, within the tolerance, the candidate sample is
\* aligned with the earlier of the two: no sample as near as the aligned one
\* is earlier than it.
C29_TieGoesToTheEarlier ==
    fn.op = "check" =>
        \A i \in 1..Len(ComparedPairs) :
            \A k \in EquallyNear(ComparedPairs[i]) :
                ComparedPairs[i][2].timestamp <= fn.b[k].timestamp

\* a sample was aligned while a later sample of the other drone was as near
C29_TieBroken ==
    /\ fn.op = "check"
    /\ \E i \in 1..Len(ComparedPairs) :
           \E k \in EquallyNear(ComparedPairs[i]) :
               ComparedPairs[i][2].timestamp < fn.b[k].timestamp

\* how often a value occurs in a sequence
Occurrences(seq, x) == Cardinality({i \in 1..Len(seq) : seq[i] = x})

\* C30: check does not deduplicate: every sample of the candidate is aligned
\* with at most one sample of the other drone, and the number of conflicts
\* returned is the number of aligned pairs nearer than the safety buffer.
C30_OneEntryPerViolatingPair ==
    fn.op = "check" =>
        /\ \A i \in 1..Len(fn.a) :
               Cardinality({j \in 1..Len(ComparedPairs) :
                               ComparedPairs[j][1] = fn.a[i]})
                   <= Occurrences(fn.a, fn.a[i])
        /\ Len(fn.ab) =
               Cardinality({j \in 1..Len(ComparedPairs) :
                               DistSq(ComparedPairs[j][1].position,
                                      ComparedPairs[j][2].position)
                                   < safety_buffer * safety_buffer})

\* a call returned two conflicts with one and the same sample of the other
\* drone
C30_SameSampleTwice ==
    /\ fn.op = "check"
    /\ \E i \in 1..Len(fn.ab), j \in 1..Len(fn.ab) :
           /\ i < j
           /\ fn.ab[i].timestamp2 = fn.ab[j].timestamp2
           /\ Len(fn.b) = 1

(***************************************************************************)
(* Claims about failures and about what a decision leaves behind           *)
(***************************************************************************)
\* the failures the arguments of the call of generate ask for
ExpectedErrors ==
    (IF fn.end_time <= fn.start_time THEN {"InvalidWindow"} ELSE {})
    \cup (IF fn.waypoints = <<>> THEN {"EmptyWaypoints"} ELSE {})

\* C13: generate fails with InvalidWindow when end_time <= start_time and
\* with EmptyWaypoints when the waypoint list is empty, and produces no
\* trajectory in either case.
C13_FailsWithItsReason ==
    (fn.op = "generate" /\ ExpectedErrors # {}) =>
        /\ fn.trajectory = <<>>
        /\ fn.error \in ExpectedErrors

\* the step in which a pool thread takes up a request
Taken(w) == wk'[w].n = n_requests + 1 /\ n_requests' = n_requests + 1

\* C14: a submission whose trajectory generation fails is rejected as an
\* invalid mission at once: the store is neither queried nor written, no
\* mission is created and every drone's committed samples stay as they were.
C14_InvalidMissionTouchesNothing ==
    [][\A w \in Workers :
          (/\ Taken(w)
           /\ wk'[w].waypoints = <<>> \/ wk'[w].end_time <= wk'[w].start_time) =>
              /\ wk'[w].pc = "done" /\ wk'[w].result = "invalid"
              /\ wk'[w].q_seq = 0 /\ wk'[w].c_seq = 0 /\ wk'[w].mission_id = NULL
              /\ future_trajectory' = future_trajectory
              /\ wal' = wal /\ db_writer' = db_writer
              /\ missions' = missions
              /\ conflicts' = conflicts]_vars

\* a submission has been rejected as invalid while its drone had a committed
\* trajectory and a mission
C14_InvalidAfterAccepted ==
    \E w \in Workers :
        /\ wk[w].pc = "done" /\ wk[w].result = "invalid"
        /\ RowsOfDrone(future_trajectory, wk[w].drone_id) # <<>>
        /\ \E i \in 1..Len(missions) : missions[i].drone_id = wk[w].drone_id

\* a step of the submission worker w is running, other than taking it up
StepOf(w) == wk'[w] # wk[w] /\ wk'[w].n = wk[w].n

\* C15: a submission rejected because of conflicts writes nothing to the
\* trajectory store: from the check that found the conflicts on, none of its
\* steps changes the committed samples of any drone, its own drone's earlier
\* trajectory included, and it ends rejected without a commit.
C15_RejectionWritesNothing ==
    [][\A w \in Workers :
          (StepOf(w) /\ wk'[w].found # <<>>) =>
              /\ future_trajectory' = future_trajectory
              /\ wal' = wal /\ db_writer' = db_writer
              /\ wk'[w].pc \in {"log", "done"}
              /\ wk'[w].pc = "done" =>
                     wk'[w].result = "rejected" /\ wk'[w].c_seq = 0]_vars

\* a submission has been rejected for conflicts with another drone while
\* its own drone had a committed trajectory
C15_RejectedWithEarlierTrajectory ==
    \E w \in Workers :
        /\ wk[w].pc = "done" /\ wk[w].result = "rejected"
        /\ wk[w].found # <<>>
        /\ RowsOfDrone(future_trajectory, wk[w].drone_id) # <<>>
        /\ \E d \in DroneIds \ {wk[w].drone_id} :
               RowsOfDrone(future_trajectory, d) # <<>>

\* C16: the trajectory of a submission accepted with mission_id m is
\* committed under m: every sample committed for it carries mission_id m,
\* and forget_mission(m) removes exactly those samples.
C16_CommittedUnderMissionId ==
    \A w \in Workers :
        (/\ wk[w].pc = "done" /\ wk[w].result = "accepted"
         /\ commit_seq = wk[w].c_seq
         /\ Len(RowsOfDrone(future_trajectory, wk[w].drone_id))
                = Len(wk[w].new_trajectory)) =>
            /\ \A i \in 1..Len(future_trajectory) :
                   future_trajectory[i].drone_id = wk[w].drone_id
                       => future_trajectory[i].mission_id = wk[w].mission_id
            /\ delete_future_trajectory(future_trajectory, NULL, wk[w].mission_id)
                   = DeleteDroneRows(future_trajectory, wk[w].drone_id)

\* the samples of a trajectory that are not older than the cutoff
NotOlder(trajectory, cutoff_time) ==
    {i \in 1..Len(trajectory) : trajectory[i].timestamp >= cutoff_time}

\* C17: gc(cutoff) deletes exactly the committed samples with timestamp <
\* cutoff and leaves every sample with timestamp >= cutoff: of a trajectory
\* that was accepted and is still in the store in full, as many rows are left
\* after the collection as it has samples at or after the cutoff (none when it
\* ended before the cutoff, so that a query over its interval returns nothing
\* for it).
C17_GcDeletesExactlyTheOld ==
    [][\A c \in SeqCutoffChoices :
           Gc(c) =>
               \A w \in Workers :
                   (/\ wk[w].pc = "done" /\ wk[w].result = "accepted"
                    /\ Len(RowsOfDrone(future_trajectory, wk[w].drone_id))
                           = Len(wk[w].new_trajectory)) =>
                       Len(RowsOfDrone(future_trajectory', wk[w].drone_id))
                           = Cardinality(NotOlder(wk[w].new_trajectory, c))]_vars

\* cleanup_old_trajectories: trajectories older than five minutes, in
\* microseconds, are due for collection
grace == 300000000

\* readings of the clock at which a submission may be handled: at the
\* reference time and more than the grace period after it
ClockChoices == {0, 302 * USEC}

\* every committed sample of the drone lies before now - grace (a row holds
\* the whole second its sample fell in)
Stale(rows, drone_id, now) ==
    \A i \in 1..Len(rows) :
        rows[i].drone_id = drone_id =>
            ParseTime(rows[i].timestamp) + USEC <= now - grace

\* the trajectories of a dictionary that are not stale
WithoutStale(trajectories, rows, now) ==
    [d \in {e \in DOMAIN trajectories : ~Stale(rows, e, now)} |-> trajectories[d]]

\* C18: a committed trajectory all of whose samples lie before now - grace
\* never affects the decision of a submission, collected or not: whatever
\* the clock reads when the check runs, it finds conflicts exactly when it
\* would find some with the stale trajectories left out.
C18_StaleTrajectoriesDecideNothing ==
    [][\A w \in Workers :
          (StepOf(w) /\ wk[w].pc = "query") =>
              \A now \in ClockChoices :
                  (wk'[w].found = <<>>) <=>
                      (check_trajectory_conflicts(wk[w].new_trajectory,
                           WithoutStale(
                               WithoutDrone(get_future_trajectories(future_trajectory,
                                   wk[w].start_time, wk[w].end_time), wk[w].drone_id),
                               future_trajectory, now)) = <<>>)]_vars

(***************************************************************************)
(* Claims about the suggestions                                            *)
(***************************************************************************)
\* the suggestions returned for a conflict list that is not empty
Suggested == fn.op = "suggest" /\ fn.conflicts # <<>>

ConflictTimes == {fn.conflicts[i].time : i \in 1..Len(fn.conflicts)}

EarliestConflict == CHOOSE t \in ConflictTimes : \A u \in ConflictTimes : t <= u

LatestConflict == CHOOSE t \in ConflictTimes : \A u \in ConflictTimes : u <= t

TypesOf(suggestions) == [i \in 1..Len(suggestions) |-> suggestions[i].type]

\* C19: for every conflict list that is not empty there is a time_shift
\* suggestion, and it delays the mission by (latest conflict time - earliest
\* conflict time) + 5 s, at least 5 s: its window is [start + delay,
\* end + delay], as long as the mission's.
C19_TimeShiftPastTheConflicts ==
    Suggested =>
        LET delay == (LatestConflict - EarliestConflict) + 5 * USEC
        IN  /\ delay >= 5 * USEC
            /\ \E i \in 1..Len(fn.suggestions) :
                   /\ fn.suggestions[i].type = "time_shift"
                   /\ fn.suggestions[i].new_start_time = fn.start_time + delay
                   /\ fn.suggestions[i].new_end_time = fn.end_time + delay
                   /\ fn.suggestions[i].new_end_time - fn.suggestions[i].new_start_time
                          = fn.end_time - fn.start_time

\* suggestions were returned for conflicts at more than one time
C19_ConflictsOverSomeTime ==
    /\ Suggested
    /\ LatestConflict > EarliestConflict
    /\ \E i \in 1..Len(fn.suggestions) : fn.suggestions[i].type = "time_shift"

\* C20: the suggestions for a conflict list that is not empty come in the
\* order time shift, altitude adjustment, path deviation, speedup, the path
\* deviation being there exactly when the mission has at least 2 waypoints
\* and the speedup exactly when the mission lasts more than 10 s.
C20_SuggestionsInPriorityOrder ==
    Suggested =>
        TypesOf(fn.suggestions) =
            <<"time_shift", "altitude_adjustment">>
            \o (IF Len(fn.waypoints) >= 2 THEN <<"path_deviation">> ELSE <<>>)
            \o (IF fn.end_time - fn.start_time > 10 * USEC
                THEN <<"speed_adjustment">> ELSE <<>>)

\* all four suggestions were returned
C20_AllFourSuggested ==
    /\ Suggested
    /\ Len(fn.suggestions) = 4
    /\ Len(fn.waypoints) >= 2

\* C21: the speedup suggestion compresses the mission window by 20%: for
\* every mission longer than 10 s its proposed end time is
\* start_time + 0.8 * (end_time - start_time).
C21_SpeedupCompressesByAFifth ==
    (Suggested /\ fn.end_time - fn.start_time > 10 * USEC) =>
        \E i \in 1..Len(fn.suggestions) :
            /\ fn.suggestions[i].type = "speed_adjustment"
            /\ fn.suggestions[i].new_end_time
                   = fn.start_time + RoundDiv(4 * (fn.end_time - fn.start_time), 5)

(***************************************************************************)
(* Claims about the realtime monitor                                       *)
(***************************************************************************)
\* a step that is one iteration of the update loop
PollStep == update_counter' = update_counter + 1

\* the alerts that step emits
NewAlerts == SubSeq(alerts', Len(alerts) + 1, Len(alerts'))

\* the alerts among them for the pair (a, b)
AlertsFor(a, b) ==
    {i \in 1..Len(NewAlerts) : NewAlerts[i].drone1 = a /\ NewAlerts[i].drone2 = b}

\* the drones that have a status in a poll
Tracked == {d \in DroneIds : live[d].master}

\* the severity the buffer's fractions give: high below half of it, medium
\* below three quarters
SeverityOfBuffer(distance_sq) ==
    IF 4 * distance_sq < safety_buffer * safety_buffer THEN "high"
    ELSE IF 16 * distance_sq < 9 * safety_buffer * safety_buffer THEN "medium"
    ELSE "low"

\* C22: on every poll each pair of live drones nearer than the safety buffer
\* yields one proximity alert, of severity high below 0.5 * buffer, medium
\* from there to below 0.75 * buffer and low otherwise; a pair at the buffer
\* or further yields none.
C22_AlertPerClosePair ==
    [][PollStep =>
          /\ \A a \in Tracked, b \in Tracked :
                 a < b =>
                     LET distance_sq == DistSq(StatusPosition(a), StatusPosition(b))
                     IN  IF distance_sq < safety_buffer * safety_buffer
                         THEN /\ Cardinality(AlertsFor(a, b)) = 1
                              /\ \A i \in AlertsFor(a, b) :
                                     NewAlerts[i].severity = SeverityOfBuffer(distance_sq)
                         ELSE AlertsFor(a, b) = {}
          /\ \A i \in 1..Len(NewAlerts) :
                 /\ NewAlerts[i].drone1 \in Tracked
                 /\ NewAlerts[i].drone2 \in Tracked
                 /\ NewAlerts[i].drone1 < NewAlerts[i].drone2]_vars

\* alerts of medium and of low severity were emitted, and a poll emitted none
C22_EverySeverityPolled ==
    /\ \E i \in 1..Len(alerts) : alerts[i].severity = "medium"
    /\ \E i \in 1..Len(alerts) : alerts[i].severity = "low"
    /\ update_counter > Len(alerts)

\* the pair (a, b) is among the conflicts of a drone_update: it is not clear
Reports(update, a, b) ==
    \E i \in 1..Len(update) : update[i].drone1 = a /\ update[i].drone2 = b

\* C23: the proximity state of a pair has hysteresis: a pair that has left
\* CLEAR returns to it only when the distance exceeds 1.1 * buffer; at a
\* distance of at most 1.1 * buffer the next poll still reports the pair.
C23_ClearOnlyBeyondHysteresis ==
    [][\A a \in Tracked, b \in Tracked :
          (/\ PollStep
           /\ a < b
           /\ Reports(drone_update, a, b)
           /\ 100 * DistSq(StatusPosition(a), StatusPosition(b))
                  <= 121 * safety_buffer * safety_buffer) =>
              Reports(drone_update', a, b)]_vars

\* the severity a drone_update reports for the pair, "clear" with no report
StateIn(update, a, b) ==
    IF Reports(update, a, b)
    THEN (CHOOSE c \in {update[i] : i \in 1..Len(update)} :
              c.drone1 = a /\ c.drone2 = b).severity
    ELSE "clear"

\* C24: the alert stream carries one record per proximity state transition of
\* a pair and none while the state of the pair is unchanged: a poll that
\* finds the pair in the state of the poll before emits no alert for it.
C24_OneAlertPerTransition ==
    [][\A a \in Tracked, b \in Tracked :
          (/\ PollStep
           /\ a < b
           /\ update_counter > 0
           /\ StateIn(drone_update', a, b) = StateIn(drone_update, a, b)) =>
              AlertsFor(a, b) = {}]_vars

(***************************************************************************)
(* Claims about the emergency clear, the keys and failed writes            *)
(***************************************************************************)
\* C25: the emergency clear invokes forget on the store: after it the store
\* holds no committed sample of the cleared drones (all of them), and it
\* issues no command to any drone.
C25_EmergencyClearsTheStore ==
    [][EmergencyStop =>
          /\ \A d \in DroneIds : RowsOfDrone(future_trajectory', d) = <<>>
          /\ commands' = commands]_vars

\* C26: after any sequence of commits no two committed samples in the store
\* have the same (drone_id, timestamp) key.
C26_KeysAreUnique ==
    \A i \in 1..Len(future_trajectory), j \in 1..Len(future_trajectory) :
        (/\ future_trajectory[i].drone_id = future_trajectory[j].drone_id
         /\ future_trajectory[i].timestamp = future_trajectory[j].timestamp) => i = j

\* C27: a store write that fails part-way through a put leaves the store
\* exactly as it was before the put: the committed rows are those from before
\* the put (the drone's previous trajectory intact, no new sample among
\* them), no transaction stays open, and the submitter gets an error, not an
\* acceptance, and no mission.
C27_FailedPutLeavesNoTrace ==
    [][\A w \in Workers :
          (StepOf(w) /\ wk[w].pc = "insert" /\ wk'[w].pc = "done") =>
              /\ wk'[w].result = "error"
              /\ wk'[w].mission_id = NULL
              /\ future_trajectory' = future_trajectory
              /\ wal' = <<>> /\ db_writer' = 0
              /\ commit_seq' = commit_seq
              /\ missions' = missions]_vars

\* a put failed after some but not all of its samples had been inserted,
\* while the store held an earlier trajectory of its drone
C27_FailedPartWay ==
    \E w \in Workers :
        /\ wk[w].pc = "done" /\ wk[w].result = "error"
        /\ wk[w].k > 1 /\ wk[w].k <= Len(wk[w].new_trajectory)
        /\ RowsOfDrone(future_trajectory, wk[w].drone_id) # <<>>

\* C28: the periodic garbage collector wakes for as long as the system runs
\* and each wake deletes the committed samples older than the cutoff, so
\* every committed sample is removed from the store in the end, once it has
\* expired: a store that holds samples is empty again later.
C28_ExpiredSamplesAreCollected ==
    (future_trajectory # <<>>) ~> (future_trajectory = <<>>)

(***************************************************************************)
(* database.py: cleanup_old_data, next to the submissions                  *)
(***************************************************************************)
\* days over a run
MaxDays == 2

\* the days_to_keep a caller passes: one day and the default of a week
KeepChoices == {1, 7}

\* DELETE FROM conflicts WHERE timestamp < datetime(?, 'unixepoch'), with
\* cutoff_date the midnight that began today less days_to_keep days: the
\* records stamped on an earlier day than that
KeptConflicts(log, days_to_keep) ==
    SelectSeq(log, LAMBDA r : ~(r.timestamp < today - days_to_keep))

\* DELETE FROM future_trajectory WHERE timestamp < datetime('now', '-1 hour').
\* The samples of a run lie in the first two seconds of day 0: they are all
\* more than an hour old from day 1 on, and on day 0 once an hour has passed.
KeptTrajectories(rows, past_hour) ==
    IF today > 0 \/ past_hour THEN <<>> ELSE rows

\* cleanup_old_data(days_to_keep), one transaction
CleanupOldData(days_to_keep, past_hour) ==
    /\ db_writer = 0
    /\ future_trajectory' = KeptTrajectories(future_trajectory, past_hour)
    /\ conflicts' = KeptConflicts(conflicts, days_to_keep)
    /\ <<future_trajectory', conflicts'>> # <<future_trajectory, conflicts>>
    /\ UNCHANGED <<db_writer, wal, drones, missions, wk, n_requests, commit_seq,
                   reader, fn, realtime>>

\* the wall clock passes midnight
Midnight ==
    /\ today < MaxDays
    /\ today' = today + 1
    /\ UNCHANGED <<coordinator, live, alerts, update_counter, drone_update,
                   commands, threads>>

\* the submissions and the store's other users over several days, with
\* cleanup_old_data among them
NextLog ==
    \/ NextSeq
    \/ Midnight
    \/ \E k \in KeepChoices, h \in BOOLEAN : CleanupOldData(k, h)

SpecLog == Init /\ [][NextLog]_vars

(***************************************************************************)
(* Claims about the conflict log, the view checked and the missions        *)
(***************************************************************************)
\* C31: the conflict log is append-only.  A check that found conflicts
\* appends one record for each of them, and every step of the system leaves
\* the records already in the log where and as they were.
C31_ConflictLogIsAppendOnly ==
    [][/\ Len(conflicts') >= Len(conflicts)
       /\ \A i \in 1..Len(conflicts) : conflicts'[i] = conflicts[i]
       /\ (wk[1].pc = "log" /\ wk'[1].pc = "done")
              => Len(conflicts') = Len(conflicts) + Len(wk[1].found)]_vars

\* the committed trajectory of the submitting drone in the window of the
\* submission worker w is running
OwnEarlier(w) ==
    LET all == get_future_trajectories(future_trajectory, wk[w].start_time,
                                       wk[w].end_time)
    IN  [d \in (DOMAIN all) \cap {wk[w].drone_id} |-> all[d]]

\* C32: a submission for drone D is never rejected because of D's own
\* committed trajectory: every conflict found for it is between D and a
\* second drone other than D, and so is every record of the conflict log.
C32_NeverRejectedByItsOwnTrajectory ==
    /\ \A w \in Workers : \A i \in 1..Len(wk[w].found) :
           /\ wk[w].found[i].drone1_id = wk[w].drone_id
           /\ wk[w].found[i].drone2_id # wk[w].drone_id
    /\ \A i \in 1..Len(conflicts) : conflicts[i].drone1_id # conflicts[i].drone2_id

\* a submission has passed the check although its drone's own committed
\* trajectory comes within the buffer of the new one
C32_PassedOverItsOwnTrajectory ==
    \E w \in Workers :
        /\ wk[w].pc = "store"
        /\ wk[w].found = <<>>
        /\ check_trajectory_conflicts(wk[w].new_trajectory, OwnEarlier(w)) # <<>>

\* C33: a submission for a drone of which no position is known (table drones
\* has no row for it) is rejected, and nothing is committed for it.
C33_NoPositionIsRejected ==
    [][\A w \in Workers :
          (wk'[w].n # wk[w].n /\ drones[wk'[w].drone_id] = <<>>) =>
              /\ wk'[w].pc = "done"
              /\ wk'[w].result \in {"invalid", "rejected"}]_vars

\* the windows of submissions that follow one another within a second
EdgeWindowChoices == {<<0, 200000>>, <<500000, 700000>>}

\* one pool thread and its submissions, nothing else
NextEdge ==
    \/ \E d \in DroneIds, wps \in WaypointChoices, win \in EdgeWindowChoices :
           Submit(1, d, wps, win)
    \/ WorkerStep

SpecEdge == Init /\ [][NextEdge]_vars

\* the samples of the other drones that the check of the submission worker w
\* is running aligns with a sample of the candidate
AlignedOthers(w) ==
    LET existing == WithoutDrone(get_future_trajectories(ReadView,
                                     wk[w].start_time, wk[w].end_time),
                                 wk[w].drone_id)
    IN  UNION {{pair[2] : pair \in
                   {align_trajectories_by_time(wk[w].new_trajectory, existing[d])[i] :
                       i \in 1..Len(align_trajectories_by_time(
                                        wk[w].new_trajectory, existing[d]))}} :
               d \in DOMAIN existing}

\* C34: the check of a submission aligns no committed sample of another
\* drone whose timestamp lies outside the candidate's [start_time, end_time].
C34_OnlySamplesInTheWindowAreAligned ==
    [][\A w \in Workers :
          (wk[w].pc = "query" /\ wk'[w].pc # "query") =>
              \A point \in AlignedOthers(w) :
                  /\ wk[w].start_time <= point.timestamp
                  /\ point.timestamp <= wk[w].end_time]_vars

\* the committed samples of the drone of mission m within m's window, as
\* the rows of the missions and future_trajectory tables tell
MissionRows(rows, m) ==
    SelectSeq(rows, LAMBDA r : /\ r.drone_id = m.drone_id
                               /\ m.start_time <= r.timestamp
                               /\ r.timestamp <= m.end_time)

\* mission m is still to fly or flying
Pending(m) == m.status \in {"scheduled", "executing"}

\* C35: the trajectory committed for a mission stays in the store while the
\* mission is scheduled or executing: no step removes a committed sample of
\* such a mission, and such a mission always has samples in the store.
C35_PendingMissionKeepsItsTrajectory ==
    [][\A i \in 1..Len(missions) :
          Pending(missions[i]) /\ Pending(missions'[i]) =>
              LET before == MissionRows(future_trajectory, missions[i])
                  after == MissionRows(future_trajectory', missions[i])
              IN  /\ after # <<>>
                  /\ \A k \in 1..Len(before) :
                         \E j \in 1..Len(after) : after[j] = before[k]]_vars

(***************************************************************************)
(* mission_executor.py: the run of a mission, next to the submissions.     *)
(* threads[m] is the run of mission m: asleep until start_time, then       *)
(* _execute_mission step by step, each step one command to the drone or    *)
(* one write of the mission's status.                                      *)
(***************************************************************************)
\* update_mission_status(mission_id, status)
update_mission_status(rows, mission_id, status) ==
    [rows EXCEPT ![mission_id].status = status]

\* the commands cmds handed to the link of drone d one after the other (sent
\* if the drone has a connection), the thread moving to pc
SendAll(m, d, cmds, pc) ==
    IF live[d].master
    THEN /\ threads' = [threads EXCEPT ![m].sent = @ \o cmds, ![m].pc = pc]
         /\ commands' = commands \cup {<<cmds[k][1], d>> : k \in 1..Len(cmds)}
    ELSE /\ threads' = [threads EXCEPT ![m].pc = pc]
         /\ commands' = commands

\* schedule_mission, lines 51-53: a mission whose start_time is not ahead is
\* run at once by the pool thread itself, which reports when the run is over
ScheduleMissionNow(w) ==
    /\ wk[w].pc = "schedule"
    /\ db_writer = 0
    /\ LET r == wk[w]
           mission_id == Len(missions) + 1
       IN  /\ missions' = Append(missions,
                              [mission_id |-> mission_id, drone_id |-> r.drone_id,
                               waypoints |-> r.waypoints,
                               start_time |-> StrfTime(r.start_time),
                               end_time |-> StrfTime(r.end_time),
                               status |-> "scheduled"])
           /\ wk' = [wk EXCEPT ![w] = [r EXCEPT !.pc = "execute",
                                                !.mission_id = mission_id]]
           /\ threads' = Append(threads,
                             [Sleeping(r.start_time, r.end_time) EXCEPT
                                 !.pc = "start", !.delayed = FALSE])
    /\ UNCHANGED <<future_trajectory, db_writer, wal, drones, conflicts,
                   n_requests, commit_seq, reader, fn,
                   live, alerts, update_counter, drone_update, commands, today>>

\* _schedule_worker, lines 259-264, after a run made by the pool thread
ReturnFromRun(w) ==
    /\ wk[w].pc = "execute"
    /\ threads[wk[w].mission_id].pc = "done"
    /\ wk' = [wk EXCEPT ![w].pc = "done", ![w].result = "accepted"]
    /\ UNCHANGED <<future_trajectory, db_writer, wal, drones, missions,
                   conflicts, n_requests, commit_seq, reader, fn, realtime>>

\* schedule_mission, lines 57-59: create_mission raises (the database is
\* locked, the disk is full); the exception is logged, None is returned, and
\* _schedule_worker, lines 259-264, reports success with the mission_id it got
ScheduleFail(w) ==
    /\ wk[w].pc = "schedule"
    /\ wk' = [wk EXCEPT ![w].pc = "done", ![w].result = "accepted",
                        ![w].mission_id = NULL]
    /\ UNCHANGED <<future_trajectory, db_writer, wal, drones, missions,
                   conflicts, n_requests, commit_seq, reader, fn, realtime>>

\* _execute_mission_delayed wakes up (or schedule_mission runs the mission at
\* once), and _execute_mission, lines 73-83, marks the mission executing
StartMission(m) ==
    /\ threads[m].pc \in {"sleeping", "start"}
    /\ db_writer = 0
    /\ IF threads[m].end_time - threads[m].start_time <= 0
       THEN /\ missions' = update_mission_status(missions, m, "failed")
            /\ threads' = [threads EXCEPT ![m].pc = "done"]
       ELSE /\ missions' = update_mission_status(missions, m, "executing")
            /\ threads' = [threads EXCEPT ![m].pc = "arm"]
    /\ UNCHANGED <<future_trajectory, db_writer, wal, drones, conflicts, wk,
                   n_requests, commit_seq, reader, fn,
                   live, alerts, update_counter, drone_update, commands, today>>

\* _execute_mission, lines 86-89: arm_drone sends the arm command to a
\* connected drone and waits for it to report armed
Arm(m, armed) ==
    /\ threads[m].pc = "arm"
    /\ db_writer = 0
    /\ LET d == missions[m].drone_id
       IN  IF live[d].master /\ armed
           THEN /\ SendAll(m, d, << <<"ARM">> >>, "takeoff")
                /\ UNCHANGED missions
           ELSE /\ SendAll(m, d, << <<"ARM">> >>, "done")
                /\ missions' = update_mission_status(missions, m, "failed")
    /\ UNCHANGED <<future_trajectory, db_writer, wal, drones, conflicts, wk,
                   n_requests, commit_seq, reader, fn,
                   live, alerts, update_counter, drone_update, today>>

\* the landing point the executor takes the flight to begin at
TakeoffPoint == <<0, 0, 5000>>

\* _execute_mission, lines 98-109: the sum of the legs is zero
NoDistance(waypoints) == \A k \in 1..Len(waypoints) : waypoints[k] = TakeoffPoint

\* _execute_mission, line 127: zip(waypoints, segment_distances[1:]) ends
\* with the shorter list, the distances from the second leg on
WaypointsFlown(waypoints) == Len(waypoints) - 1

\* _execute_mission, lines 91-124: takeoff arms again and sends the takeoff
\* command; then the legs are measured and the time left is taken.  late
\* says that no time of the window is left.
Takeoff(m, armed, late) ==
    /\ threads[m].pc = "takeoff"
    /\ db_writer = 0
    /\ LET d == missions[m].drone_id
           waypoints == missions[m].waypoints
       IN  IF ~(live[d].master /\ armed)
           THEN /\ SendAll(m, d, << <<"ARM">> >>, "done")
                /\ missions' = update_mission_status(missions, m, "failed")
           ELSE /\ SendAll(m, d, << <<"ARM">>, <<"TAKEOFF">> >>,
                           IF NoDistance(waypoints) \/ late
                                  \/ WaypointsFlown(waypoints) < 1
                           THEN "complete" ELSE "goto")
                /\ UNCHANGED missions
    /\ UNCHANGED <<future_trajectory, db_writer, wal, drones, conflicts, wk,
                   n_requests, commit_seq, reader, fn,
                   live, alerts, update_counter, drone_update, today>>

\* _execute_mission, lines 127-153: one turn of the loop, the goto command
\* for the next waypoint and the wait for the leg's time
Goto(m) ==
    /\ threads[m].pc = "goto"
    /\ LET d == missions[m].drone_id
           waypoints == missions[m].waypoints
           i == threads[m].i + 1
       IN  IF live[d].master
           THEN /\ threads' = [threads EXCEPT
                                  ![m].sent = Append(@, <<"GOTO", waypoints[i]>>),
                                  ![m].i = i,
                                  ![m].pc = IF i < WaypointsFlown(waypoints)
                                            THEN "goto" ELSE "complete"]
                /\ commands' = commands \cup {<<"GOTO", d>>}
           ELSE /\ threads' = [threads EXCEPT ![m].pc = "give_up"]
                /\ commands' = commands
    /\ UNCHANGED <<coordinator, live, alerts, update_counter, drone_update, today>>

\* _complete_mission: the final status, then return to launch, land, disarm
CompleteMission(m) ==
    /\ threads[m].pc \in {"complete", "give_up"}
    /\ db_writer = 0
    /\ missions' = update_mission_status(missions, m,
                       IF threads[m].pc = "give_up" THEN "failed" ELSE "completed")
    /\ SendAll(m, missions[m].drone_id,
               << <<"RTL">>, <<"LAND">>, <<"DISARM">> >>, "done")
    /\ UNCHANGED <<future_trajectory, db_writer, wal, drones, conflicts, wk,
                   n_requests, commit_seq, reader, fn,
                   live, alerts, update_counter, drone_update, today>>

\* cancel_mission(mission_id), for a mission entered in active_missions
cancel_mission(m) ==
    /\ threads[m].delayed
    /\ db_writer = 0
    /\ missions[m].status # "cancelled"
    /\ missions' = update_mission_status(missions, m, "cancelled")
    /\ UNCHANGED <<future_trajectory, db_writer, wal, drones, conflicts, wk,
                   n_requests, commit_seq, reader, fn, realtime>>

\* the waypoint lists of the missions flown: one waypoint and two
FlyWaypointChoices == {<<Pos(0, 0, 10)>>, <<Pos(10, 0, 10), Pos(0, 0, 10)>>}

\* a fleet of which any drone may not have answered connect_all
InitFly ==
    /\ InitTables
    /\ fn = NoCall
    /\ live \in [DroneIds -> {Connected, Disconnected}]
    /\ alerts = <<>>
    /\ update_counter = 0
    /\ drone_update = <<>>
    /\ commands = {}
    /\ today = 0
    /\ threads = <<>>

\* the steps of the threads of the executor
MissionStep ==
    \/ \E m \in 1..Len(threads) : StartMission(m)
    \/ \E m \in 1..Len(threads), armed \in BOOLEAN : Arm(m, armed)
    \/ \E m \in 1..Len(threads), armed \in BOOLEAN, late \in BOOLEAN :
           Takeoff(m, armed, late)
    \/ \E m \in 1..Len(threads) : Goto(m)
    \/ \E m \in 1..Len(threads) : CompleteMission(m)

\* one pool thread with its submissions, the missions it schedules and their
\* runs, and cancel_mission
NextFly ==
    \/ \E d \in DroneIds, wps \in FlyWaypointChoices, win \in WindowChoices :
           Submit(1, d, wps, win)
    \/ WorkerStep
    \/ ScheduleMissionNow(1)
    \/ ReturnFromRun(1)
    \/ ScheduleFail(1)
    \/ MissionStep
    \/ \E m \in 1..Len(threads) : cancel_mission(m)

SpecFly == InitFly /\ [][NextFly]_vars

(***************************************************************************)
(* Claims about the missions and their runs                                *)
(***************************************************************************)
\* the goto commands among the commands of a run, in the order sent
GotosOf(sent) == SelectSeq(sent, LAMBDA c : c[1] = "GOTO")

\* C36: a mission is completed only after a goto command was issued for
\* every one of its waypoints, in their order, the last one included.
C36_CompletedAfterEveryWaypoint ==
    \A m \in 1..Len(missions) :
        missions[m].status = "completed" =>
            GotosOf(threads[m].sent) =
                [k \in 1..Len(missions[m].waypoints) |->
                    <<"GOTO", missions[m].waypoints[k]>>]

\* C37: a mission cancelled while it was scheduled stays cancelled, and no
\* command is issued for it any more.
C37_CancelledStaysCancelled ==
    [][\A m \in 1..Len(missions) :
          (missions[m].status = "cancelled" /\ threads[m].pc = "sleeping") =>
              /\ missions'[m].status = "cancelled"
              /\ threads'[m].sent = threads[m].sent]_vars

\* the samples of trajectory are among the committed rows
StillCommitted(trajectory) ==
    \A k \in 1..Len(trajectory) :
        \E j \in 1..Len(future_trajectory) :
            future_trajectory[j] = StoredRow(trajectory[k], NULL)

\* C38: committing a trajectory and creating its mission are all-or-nothing.
\* A submission that has ended after committing its trajectory either has
\* its mission record, or else (creating the mission failed) its trajectory
\* is no longer committed and it was not reported as accepted.
C38_CommitAndMissionAllOrNothing ==
    \A w \in Workers :
        (wk[w].pc = "done" /\ wk[w].c_seq > 0) =>
            IF wk[w].mission_id # NULL
            THEN /\ wk[w].mission_id \in 1..Len(missions)
                 /\ missions[wk[w].mission_id].drone_id = wk[w].drone_id
            ELSE /\ wk[w].result # "accepted"
                 /\ ~StillCommitted(wk[w].new_trajectory)

\* the check of the submission worker w is running has returned unsafe
Unsafe(w) ==
    \/ wk[w].found # <<>>
    \/ wk[w].result \in {"rejected", "invalid"}

\* C39: a mission record is created, and its run scheduled, only by a
\* submission whose conflict check returned safe, for that submission's
\* drone; a submission whose check returned unsafe never gets a mission, and
\* every run, with the commands it issues, belongs to a mission so created.
C39_MissionOnlyAfterSafeCheck ==
    [][/\ Len(threads') = Len(missions')
       /\ (Len(missions') # Len(missions)) =>
              /\ Len(missions') = Len(missions) + 1
              /\ \E w \in Workers :
                     /\ wk[w].pc = "schedule"
                     /\ wk[w].new_trajectory # <<>>
                     /\ wk[w].found = <<>>
                     /\ wk'[w].mission_id = Len(missions')
                     /\ missions'[Len(missions')].drone_id = wk[w].drone_id
       /\ \A w \in Workers :
              (Unsafe(w) /\ wk'[w].n = wk[w].n) =>
                  /\ wk'[w].mission_id = NULL
                  /\ wk'[w].result # "accepted"]_vars

\* a submission has been rejected for its conflicts while the mission of
\* another drone was being flown
C39_RejectedNextToAMission ==
    \E w \in Workers :
        /\ wk[w].pc = "done" /\ wk[w].result = "rejected"
        /\ Len(missions) = 1
        /\ missions[1].drone_id # wk[w].drone_id
        /\ \E c \in commands : c[1] = "TAKEOFF"

\* worker w commits its trajectory in this step
Commits(w) == wk[w].pc = "insert" /\ wk'[w].pc = "schedule"

\* C40: of two concurrent submissions for the same drone that both commit,
\* the store holds after the second commit the complete trajectory of the
\* second, in its order, and no other sample of that drone: nothing of the
\* first is left and nothing of the second is missing.
C40_SameDroneLastCommitWins ==
    [][\A v, w \in Workers :
          (/\ v # w
           /\ Commits(w)
           /\ Concurrent(v, w)
           /\ wk[v].drone_id = wk[w].drone_id
           /\ wk[v].c_seq > 0) =>
              RowsOfDrone(future_trajectory', wk[w].drone_id) =
                  RowsOfTrajectory(wk[w].new_trajectory)]_vars

\* two concurrent submissions for the same drone with different trajectories
\* have both been accepted, and the store holds the trajectory of the one
\* that committed last
C40_BothAcceptedOneKept ==
    \E v, w \in Workers :
        /\ v # w
        /\ Concurrent(v, w)
        /\ wk[v].pc = "done" /\ wk[v].result = "accepted"
        /\ wk[w].pc = "done" /\ wk[w].result = "accepted"
        /\ wk[v].drone_id = wk[w].drone_id
        /\ wk[v].new_trajectory # wk[w].new_trajectory
        /\ 0 < wk[v].c_seq /\ wk[v].c_seq < wk[w].c_seq
        /\ RowsOfDrone(future_trajectory, wk[w].drone_id) =
               RowsOfTrajectory(wk[w].new_trajectory)
====
